---- MODULE Spec2Model ----
(***************************************************************************)
(* Timestamp audit / repair tools of the course-content pipeline           *)
(* (src/tools): fix_timestamps.py, fix_timestamps_enhanced.py,             *)
(* audit_timestamps.py, audit_timestamps_enhanced.py, and the tools that   *)
(* overwrite the course document.                                          *)
(*                                                                         *)
(* A time string is modelled by what the parsers can see of it:            *)
(*   k   "hms"  three ':'-separated numeric parts                          *)
(*       "ms"   two ':'-separated numeric parts                            *)
(*       "nan"  two ':'-separated parts that are not numbers ("1:xx")      *)
(*       "bad"  no ':'-delimited pattern at all ("TBD", "")                *)
(*   h, m, s    the numeric fields (h unused for "ms")                     *)
(*   mp  the minutes field is written with two digits                      *)
(*   ann a trailing parenthetical annotation follows (" (approx)")         *)
(* Labels, descriptions, titles and content are strings.                   *)
(***************************************************************************)
EXTENDS Integers, Sequences, FiniteSets, TLC

\* ------------------------------------------------------------------------
\* Time strings
\* ------------------------------------------------------------------------

\* the string f"{h}:{m:02d}:{s:02d}"
HMS(h, m, s) == [k |-> "hms", h |-> h, m |-> m, s |-> s, mp |-> TRUE, ann |-> FALSE]

MS(m, s) == [k |-> "ms", h |-> 0, m |-> m, s |-> s, mp |-> TRUE, ann |-> FALSE]

BadTime == [k |-> "bad", h |-> 0, m |-> 0, s |-> 0, mp |-> TRUE, ann |-> FALSE]

NanTime == [k |-> "nan", h |-> 0, m |-> 0, s |-> 0, mp |-> TRUE, ann |-> FALSE]

Annotated(t) == [t EXCEPT !.ann = TRUE]

\* time_str.strip().split('(')[0].strip()  /  re.sub(r'\s*\([^)]+\)', '', ...)
StripAnnotation(t) == [t EXCEPT !.ann = FALSE]

\* Python's None
None == -1

\* DURATION_CLEAN_RE / DURATION_RE / audit TIME_RE on an annotation-free string:
\* ^(?:(\d+):)?([0-5]?\d):([0-5]\d)$
MatchesCleanRe(t) ==
    /\ t.k \in {"hms", "ms"}
    /\ ~t.ann
    /\ t.m <= 59
    /\ t.s <= 59

\* normalize_time that formats minutes and seconds only: the hours group is lost
FixNormalizeCleanNoHours(time_str, clean) ==
    IF ~MatchesCleanRe(clean)
    THEN <<time_str, FALSE>>
    ELSE <<HMS(0, clean.m, clean.s), HMS(0, clean.m, clean.s) # clean>>

\* fix_timestamps.normalize_time after the annotation is stripped:
\* <<normalized, was_changed>>
FixNormalizeClean(time_str, clean) ==
    IF ~MatchesCleanRe(clean)
    THEN IF clean.k = "ms"
         THEN <<HMS(clean.m \div 60, clean.m % 60, clean.s), TRUE>>
         ELSE <<time_str, FALSE>>
    ELSE <<HMS((IF clean.k = "hms" THEN clean.h ELSE 0)
                  + (IF clean.m >= 60 THEN clean.m \div 60 ELSE 0),
               IF clean.m >= 60 THEN clean.m % 60 ELSE clean.m,
               clean.s),
           HMS((IF clean.k = "hms" THEN clean.h ELSE 0)
                  + (IF clean.m >= 60 THEN clean.m \div 60 ELSE 0),
               IF clean.m >= 60 THEN clean.m % 60 ELSE clean.m,
               clean.s) # clean>>

\* fix_timestamps.normalize_time: <<normalized, was_changed>>
FixNormalizeTime(time_str) == FixNormalizeClean(time_str, StripAnnotation(time_str))

\* h * 3600 + m * 60 + s of a string of three numeric parts, else None
\* (int() fails on a part that carries an annotation)
FixSecondsOf(normalized) ==
    IF normalized.k = "hms" /\ ~normalized.ann
    THEN normalized.h * 3600 + normalized.m * 60 + normalized.s
    ELSE None

\* fix_timestamps.to_seconds: seconds, or None
FixToSeconds(time_str) == FixSecondsOf(FixNormalizeTime(time_str)[1])

\* fix_timestamps_enhanced.normalize_time raises ValueError on int()
EnhNormalizeRaises(time_str) == time_str.k = "nan"

\* fix_timestamps_enhanced.normalize_time after the annotation is removed
EnhNormalizeClean(time_str, clean) ==
    IF clean.k = "ms"
    THEN HMS(clean.m \div 60, clean.m % 60, clean.s)
    ELSE IF clean.k = "hms"
    THEN HMS(clean.h + ((clean.m + (clean.s \div 60)) \div 60),
             (clean.m + (clean.s \div 60)) % 60,
             clean.s % 60)
    ELSE time_str

\* fix_timestamps_enhanced.normalize_time (for strings on which it returns)
EnhNormalizeTime(time_str) == EnhNormalizeClean(time_str, StripAnnotation(time_str))

\* int(parts[0]) * 3600 + int(parts[1]) * 60 + int(parts[2]), 0 if not three parts
EnhSecondsOf(normalized) ==
    IF normalized.k = "hms"
    THEN normalized.h * 3600 + normalized.m * 60 + normalized.s
    ELSE 0

\* fix_timestamps_enhanced.time_to_seconds
EnhTimeToSeconds(time_str) == EnhSecondsOf(EnhNormalizeTime(time_str))

\* fix_timestamps_enhanced.seconds_to_time
SecondsToTime(seconds) ==
    HMS(seconds \div 3600, (seconds % 3600) \div 60, seconds % 60)

\* ------------------------------------------------------------------------
\* Strings (labels, descriptions, titles, content are Python str)
\* ------------------------------------------------------------------------

Upper == <<"A","B","C","D","E","F","G","H","I","J","K","L","M",
           "N","O","P","Q","R","S","T","U","V","W","X","Y","Z">>

LowerLetters == <<"a","b","c","d","e","f","g","h","i","j","k","l","m",
                  "n","o","p","q","r","s","t","u","v","w","x","y","z">>

Digits == {"0","1","2","3","4","5","6","7","8","9"}

UpperSet == {Upper[i] : i \in 1..26}

LowerSet == {LowerLetters[i] : i \in 1..26}

AlnumSet == Digits \cup UpperSet \cup LowerSet

ToLower == [c \in UpperSet |-> LowerLetters[CHOOSE i \in 1..26 : Upper[i] = c]]

ToUpper == [c \in LowerSet |-> Upper[CHOOSE i \in 1..26 : LowerLetters[i] = c]]

\* [a-zA-Z0-9]
IsAlnum(c) == c \in AlnumSet

\* \w
IsWordChar(c) == c \in AlnumSet \/ c = "_"

\* str.split() separators occurring in the documents
IsSpace(c) == c = " "

CharAt(str, i) == SubSeq(str, i, i)

\* one character of str.lower()
LowerChar(c) == IF c \in UpperSet THEN ToLower[c] ELSE c

RECURSIVE LowerFrom(_, _)
LowerFrom(str, i) ==
    IF i > Len(str) THEN ""
    ELSE LowerChar(CharAt(str, i)) \o LowerFrom(str, i + 1)

\* str.lower()
Lower(str) == LowerFrom(str, 1)

\* sub in str
Contains(sub, str) ==
    \E i \in 1..(Len(str) - Len(sub) + 1) : SubSeq(str, i, i + Len(sub) - 1) = sub

\* str.startswith(prefix)
StartsWith(str, prefix) ==
    Len(prefix) <= Len(str) /\ SubSeq(str, 1, Len(prefix)) = prefix

\* end (exclusive) of the maximal run of characters satisfying the class
\* that starts at i; cls is 1 for [a-zA-Z0-9], 2 for \w, 3 for non-space
InClass(cls, c) ==
    IF cls = 1 THEN IsAlnum(c) ELSE IF cls = 2 THEN IsWordChar(c) ELSE ~IsSpace(c)

RECURSIVE RunEnd(_, _, _)
RunEnd(cls, str, i) ==
    IF i <= Len(str) /\ InClass(cls, CharAt(str, i))
    THEN RunEnd(cls, str, i + 1)
    ELSE i

\* the maximal runs of a character class, left to right
RECURSIVE RunsFrom(_, _, _)
RunsFrom(cls, str, i) ==
    IF i > Len(str) THEN <<>>
    ELSE IF InClass(cls, CharAt(str, i))
    THEN LET e == RunEnd(cls, str, i)
         IN <<[from |-> i, to |-> e - 1]>> \o RunsFrom(cls, str, e)
    ELSE RunsFrom(cls, str, i + 1)

\* the substrings of str at the given runs
Cut(str, runs) == [n \in 1..Len(runs) |-> SubSeq(str, runs[n].from, runs[n].to)]

\* str.split()
Split(str) == Cut(str, RunsFrom(3, str, 1))

\* a run of [a-z0-9] has a word boundary on both sides: it is not adjacent to '_'
Bounded(low, r) ==
    /\ (r.from > 1 => CharAt(low, r.from - 1) # "_")
    /\ (r.to < Len(low) => CharAt(low, r.to + 1) # "_")

BoundedRuns(low, runs) == SelectSeq(runs, LAMBDA r : Bounded(low, r))

\* re.findall(r'\b[a-zA-Z0-9]+\b', low)
BoundedWords(low) == Cut(low, BoundedRuns(low, RunsFrom(1, low, 1)))

\* fix_timestamps.extract_words, audit_timestamps_enhanced.extract_words:
\* re.findall(r'\b[a-zA-Z0-9]+\b', text.lower())
extract_words(text) == BoundedWords(Lower(text))

\* fix_timestamps.word_count / audit_timestamps_enhanced.word_count
word_count(text) == Len(extract_words(text))

\* re.findall(r"[A-Za-z0-9_]+", low)
WordRuns(low) == Cut(low, RunsFrom(2, low, 1))

\* audit_timestamps.words
words(str) == WordRuns(Lower(str))

Range(seq) == {seq[i] : i \in 1..Len(seq)}

\* ' '.join(seq)
RECURSIVE Join(_, _)
Join(sep, seq) ==
    IF seq = <<>> THEN ""
    ELSE IF Len(seq) = 1 THEN seq[1]
    ELSE seq[1] \o sep \o Join(sep, Tail(seq))

\* str[:n]
Truncate(str, n) == IF Len(str) <= n THEN str ELSE SubSeq(str, 1, n)


\* ------------------------------------------------------------------------
\* Configuration constants
\* ------------------------------------------------------------------------

\* fix_timestamps.MIN_SEP_S
MIN_SEP_S == 8

\* fix_timestamps_enhanced.MIN_SEPARATION_S
MIN_SEPARATION_S == 15

\* fix_timestamps_enhanced.MAX_GAP_PERCENT is 0.25 = 1 / MAX_GAP_DIVISOR
MAX_GAP_DIVISOR == 4

\* audit_timestamps.MAX_GAP_S, audit_timestamps_enhanced.MAX_GAP_S
MAX_GAP_S == 900

LABEL_WORDS_MIN == 2

LABEL_WORDS_MAX == 5

DESC_WORDS_MIN == 5

DESC_WORDS_MAX == 15

\* fix_timestamps.GENERIC_LABELS, audit_timestamps_enhanced.GENERIC_LABELS
GENERIC_LABELS ==
    {"overview", "discussion", "recap", "intro", "general", "introduction", "review"}

\* audit_timestamps.GENERIC_LABELS
AUDIT_GENERIC_LABELS == {"overview", "discussion", "recap", "intro", "general"}

\* fix_timestamps_enhanced.GENERIC_TERMS
GENERIC_TERMS ==
    {"overview", "introduction", "discussion", "recap", "general",
     "review", "summary", "basics", "fundamentals", "concepts"}

\* ------------------------------------------------------------------------
\* Label / description quality: the two audits and the two fixers
\* ------------------------------------------------------------------------

\* fix_timestamps.is_weak_label, ws the words of the label
WeakLabelWords(label, ws) ==
    \/ label = ""
    \/ Len(ws) < LABEL_WORDS_MIN
    \/ Len(ws) > LABEL_WORDS_MAX
    \/ Range(ws) \subseteq GENERIC_LABELS

\* fix_timestamps.is_weak_label
is_weak_label(label) == WeakLabelWords(label, extract_words(label))

\* len(label_words & desc_words) / len(desc_words) > 0.7
OverlapAbove70(label_words, desc_words) ==
    10 * Cardinality(label_words \cap desc_words) > 7 * Cardinality(desc_words)

\* "Check for too much repetition"
Repeats(label_words, desc_words) ==
    /\ label_words # {}
    /\ desc_words # {}
    /\ OverlapAbove70(label_words, desc_words)

\* fix_timestamps.is_weak_description, dws and lws the words of desc and label
WeakDescriptionWords(desc, dws, lws) ==
    \/ desc = ""
    \/ Len(dws) < DESC_WORDS_MIN
    \/ Len(dws) > DESC_WORDS_MAX
    \/ Repeats(Range(lws), Range(dws))

\* fix_timestamps.is_weak_description
is_weak_description(desc, label) ==
    WeakDescriptionWords(desc, extract_words(desc), extract_words(label))

\* audit_timestamps_enhanced.check_label_quality, ws the words of the label
LabelQualityWords(label, ws) ==
    /\ label # ""
    /\ ~(Len(ws) < 2 \/ Len(ws) > 5)
    /\ ~(Cardinality(Range(ws)) = 1 /\ Range(ws) \subseteq GENERIC_LABELS)

\* audit_timestamps_enhanced.check_label_quality
check_label_quality(label) == LabelQualityWords(label, extract_words(label))

\* audit_timestamps_enhanced.check_description_quality on the words
DescriptionQualityWords(desc, dws, lws) ==
    /\ desc # ""
    /\ ~(Len(dws) < 5 \/ Len(dws) > 15)
    /\ ~Repeats(Range(lws), Range(dws))

\* audit_timestamps_enhanced.check_description_quality
check_description_quality(desc, label) ==
    DescriptionQualityWords(desc, extract_words(desc), extract_words(label))

\* audit_timestamps.main, label heuristic on the tokens of the label
VagueLabelTokens(toks) ==
    \/ Len(toks) < LABEL_WORDS_MIN
    \/ Len(toks) > LABEL_WORDS_MAX
    \/ \E g \in AUDIT_GENERIC_LABELS : g \in Range(toks)

\* audit_timestamps.main, label heuristic: the label is listed as vague
AuditVagueLabel(label) == VagueLabelTokens(words(label))

\* overlap = len(ltoks & dtoks) / max(1, len(dtoks)) if dtoks else 0.0; overlap >= 0.7
OverlapAtLeast70(ltoks, dtoks) ==
    /\ dtoks # {}
    /\ 10 * Cardinality(ltoks \cap dtoks) >= 7 * Cardinality(dtoks)

\* audit_timestamps.main, description heuristic on the tokens
WeakDescriptionTokens(dtoks, ltoks) ==
    \/ Len(dtoks) < DESC_WORDS_MIN
    \/ Len(dtoks) > DESC_WORDS_MAX
    \/ OverlapAtLeast70(Range(ltoks), Range(dtoks))

\* audit_timestamps.main, description heuristic: the description is listed as weak
AuditWeakDescription(desc, label) == WeakDescriptionTokens(words(desc), words(label))

\* is_generic = any(term in original_label.lower() for term in GENERIC_TERMS)
EnhIsGeneric(label_lower) == \E term \in GENERIC_TERMS : Contains(term, label_lower)

\* needs_label_rewrite
EnhNeedsLabelRewrite(original_label, label_words, is_generic, existing_labels) ==
    \/ Len(label_words) < LABEL_WORDS_MIN
    \/ Len(label_words) > LABEL_WORDS_MAX
    \/ is_generic
    \/ original_label \in Range(existing_labels)
    \/ original_label = "TO_REVIEW"

\* the label test without the exemption of "TO_REVIEW"
EnhRewritesLabelAlsoReview(original_label, existing_labels) ==
    EnhNeedsLabelRewrite(original_label, Split(original_label),
                         EnhIsGeneric(Lower(original_label)), existing_labels)

\* fix_timestamps_enhanced.fix_lesson_timestamps: the label is rewritten
\* (needs_label_rewrite and original_label != "TO_REVIEW")
EnhRewritesLabel(original_label, existing_labels) ==
    /\ EnhNeedsLabelRewrite(original_label, Split(original_label),
                            EnhIsGeneric(Lower(original_label)), existing_labels)
    /\ original_label # "TO_REVIEW"

\* needs_desc_rewrite
EnhNeedsDescRewrite(desc_words, desc_lower, label_lower) ==
    \/ Len(desc_words) < DESC_WORDS_MIN
    \/ Len(desc_words) > DESC_WORDS_MAX
    \/ desc_lower = label_lower
    \/ (Contains("overview", desc_lower) /\ Len(desc_words) < 8)

\* fix_timestamps_enhanced.fix_lesson_timestamps: the description is rewritten
EnhRewritesDescription(original_desc, original_label) ==
    EnhNeedsDescRewrite(Split(original_desc), Lower(original_desc), Lower(original_label))

\* ------------------------------------------------------------------------
\* fix_timestamps: rewrite heuristics
\* ------------------------------------------------------------------------

IsLetter(c) == c \in UpperSet \/ c \in LowerSet

UpperChar(c) == IF c \in LowerSet THEN ToUpper[c] ELSE c

RECURSIVE TitleFrom(_, _)
TitleFrom(str, i) ==
    IF i > Len(str) THEN ""
    ELSE LET c == CharAt(str, i)
             first == i = 1 \/ ~IsLetter(CharAt(str, i - 1))
         IN (IF first THEN UpperChar(c) ELSE LowerChar(c)) \o TitleFrom(str, i + 1)

\* str.title()
Title(str) == TitleFrom(str, 1)

\* fix_timestamps.rewrite_label(old_label, context)
rewrite_label(old_label, context) ==
    LET ws == extract_words(Lower(context))
        wset == Range(ws)
        has(w) == w \in wset
        tech_terms == SelectSeq(ws, LAMBDA w : Len(w) > 4 /\ w \notin GENERIC_LABELS)
    IN
    IF (has("configure") \/ has("config") \/ has("setup") \/ has("setting"))
       /\ (has("database") \/ has("pinecone"))
    THEN "Configure Database"
    ELSE IF (has("configure") \/ has("config") \/ has("setup") \/ has("setting"))
            /\ has("api")
    THEN "API Setup"
    ELSE IF (has("configure") \/ has("config") \/ has("setup") \/ has("setting"))
            /\ (has("environment") \/ has("env"))
    THEN "Environment Setup"
    ELSE IF (has("implement") \/ has("build") \/ has("create")) /\ has("function")
    THEN "Implement Function"
    ELSE IF (has("implement") \/ has("build") \/ has("create")) /\ has("class")
    THEN "Build Class"
    ELSE IF (has("implement") \/ has("build") \/ has("create")) /\ has("pipeline")
    THEN "Create Pipeline"
    ELSE IF has("test") \/ has("testing")
    THEN "Testing Process"
    ELSE IF has("deploy") \/ has("deployment")
    THEN "Deployment Steps"
    ELSE IF Len(tech_terms) >= 2
    THEN Title(Join(" ", SubSeq(tech_terms, 1, IF Len(tech_terms) < 3 THEN Len(tech_terms) ELSE 3)))
    ELSE "Key Concepts"

\* fix_timestamps.rewrite_description(old_desc, label, context)
rewrite_description(old_desc, label, context) ==
    LET ws == extract_words(Lower(context))
        label_lower == Lower(label)
        action_words == <<"create", "build", "implement", "configure", "set",
                          "deploy", "test", "validate">>
        found_actions == SelectSeq(action_words, LAMBDA w : w \in Range(ws))
    IN
    IF Contains("setup", label_lower) \/ Contains("configure", label_lower)
    THEN "Set up required components and configuration parameters"
    ELSE IF Contains("implement", label_lower) \/ Contains("build", label_lower)
    THEN "Build core functionality with error handling"
    ELSE IF Contains("test", label_lower)
    THEN "Validate implementation with comprehensive test cases"
    ELSE IF Contains("deploy", label_lower)
    THEN "Deploy to production environment with monitoring"
    ELSE IF found_actions # <<>>
    THEN "Learn to " \o found_actions[1] \o " and apply best practices"
    ELSE "Understand key concepts and practical applications"


\* ------------------------------------------------------------------------
\* Sorting (list.sort(key=...) is stable)
\* ------------------------------------------------------------------------

\* insert x behind every element whose key s is not larger
InsertStable(sorted, x) ==
    LET p == Cardinality({j \in 1..Len(sorted) : sorted[j].s <= x.s})
    IN SubSeq(sorted, 1, p) \o <<x>> \o SubSeq(sorted, p + 1, Len(sorted))

RECURSIVE SortPrefix(_, _)
SortPrefix(seq, n) ==
    IF n = 0 THEN <<>> ELSE InsertStable(SortPrefix(seq, n - 1), seq[n])

\* sorted(seq, key=lambda x: x.s), for a sequence of records with a field s
SortByS(seq) == SortPrefix(seq, Len(seq))

\* ------------------------------------------------------------------------
\* fix_timestamps.process_lesson
\* ------------------------------------------------------------------------

\* step 2 without its "if not dry_run": the normalized time is stored in every run
FixNormalizedListAlways(timestamps, dry_run) ==
    [n \in 1..Len(timestamps) |->
        IF FixNormalizeTime(timestamps[n].time)[2]
        THEN [timestamps[n] EXCEPT !.time = FixNormalizeTime(timestamps[n].time)[1]]
        ELSE timestamps[n]]

\* step 2: normalize the timestamp times; the list as left in the lesson
FixNormalizedList(timestamps, dry_run) ==
    [n \in 1..Len(timestamps) |->
        LET nt == FixNormalizeTime(timestamps[n].time)
        IN IF nt[2] /\ ~dry_run
           THEN [timestamps[n] EXCEPT !.time = nt[1]]
           ELSE timestamps[n]]

\* the "old -> new" records appended to result["normalized_times"] in step 2
FixNormalizedLog(timestamps) ==
    LET changed == SelectSeq(timestamps, LAMBDA ts : FixNormalizeTime(ts.time)[2])
    IN [n \in 1..Len(changed) |->
          [old |-> changed[n].time, new |-> FixNormalizeTime(changed[n].time)[1]]]

\* times_with_index, sorted by time: the entries whose time parses
FixTimesWithIndex(timestamps) ==
    LET idx == SelectSeq([n \in 1..Len(timestamps) |-> n],
                         LAMBDA n : FixToSeconds(timestamps[n].time) # None)
    IN SortByS([n \in 1..Len(idx) |->
                  [s |-> FixToSeconds(timestamps[idx[n]].time),
                   i |-> idx[n],
                   ts |-> timestamps[idx[n]]]])

\* which entry of a dense pair goes: TRUE when the earlier one is removed
\* (keep the one with the longer description, the earlier one if equal)
FixRemovesPrev(prev_ts, curr_ts) ==
    Len(curr_ts.description) > Len(prev_ts.description)

\* the loop "Find dense pairs" from position i on:
\* [to_remove |-> set of list indices, pairs |-> removed_dense_pairs]
RECURSIVE FixDenseFrom(_, _, _, _, _)
FixDenseFrom(twi, i, to_remove, pairs, min_sep) ==
    IF i > Len(twi) THEN [to_remove |-> to_remove, pairs |-> pairs]
    ELSE LET prev == twi[i - 1]
             curr == twi[i]
         IN IF prev.i \notin to_remove /\ (curr.s - prev.s) < min_sep
            THEN FixDenseFrom(twi, i + 1,
                     to_remove \cup {IF FixRemovesPrev(prev.ts, curr.ts) THEN prev.i ELSE curr.i},
                     Append(pairs, [prev |-> prev.ts.time, curr |-> curr.ts.time]),
                     min_sep)
            ELSE FixDenseFrom(twi, i + 1, to_remove, pairs, min_sep)

\* step 3 on the (normalized) list
FixDense(timestamps) ==
    IF Len(timestamps) > 1
    THEN FixDenseFrom(FixTimesWithIndex(timestamps), 2, {}, <<>>, MIN_SEP_S)
    ELSE [to_remove |-> {}, pairs |-> <<>>]

\* [ts for i, ts in enumerate(timestamps) if i not in to_remove]
FixRemove(timestamps, to_remove) ==
    LET keep == SelectSeq([n \in 1..Len(timestamps) |-> n], LAMBDA n : n \notin to_remove)
    IN [n \in 1..Len(keep) |-> timestamps[keep[n]]]

\* ' '.join(new_desc.split()[:DESC_WORDS_MAX]) when word_count(new_desc) > DESC_WORDS_MAX
FixClampDescription(new_desc) ==
    IF word_count(new_desc) > DESC_WORDS_MAX
    THEN LET ws == Split(new_desc)
         IN Join(" ", SubSeq(ws, 1, IF Len(ws) < DESC_WORDS_MAX THEN Len(ws) ELSE DESC_WORDS_MAX))
    ELSE new_desc

\* step 4 for one timestamp: the record appended to result["rewritten"]
\* (label/desc fields NoChange when that text is not rewritten)
NoChange == "<unchanged>"

FixRewriteOf(ts, content) ==
    LET context == Truncate(content, 500)
    IN [time |-> ts.time,
        old_label |-> ts.label,
        new_label |-> IF is_weak_label(ts.label)
                      THEN rewrite_label(ts.label, context) ELSE NoChange,
        old_desc |-> ts.description,
        new_desc |-> IF is_weak_description(ts.description, ts.label)
                     THEN FixClampDescription(rewrite_description(ts.description, ts.label, context))
                     ELSE NoChange]

FixRewriteAppliesTo(ts) ==
    is_weak_label(ts.label) \/ is_weak_description(ts.description, ts.label)

FixRewrittenEntry(ts, content, dry_run) ==
    LET rw == FixRewriteOf(ts, content)
    IN IF dry_run THEN ts
       ELSE [ts EXCEPT !.label = IF rw.new_label # NoChange THEN rw.new_label ELSE @,
                       !.description = IF rw.new_desc # NoChange THEN rw.new_desc ELSE @]

\* process_lesson(lesson, dry_run): the lesson as left by the call and the
\* returned result
process_lesson(lesson, dry_run) ==
    LET nd == FixNormalizeTime(lesson.duration)
        duration_changed == lesson.duration.k # "bad" /\ nd[2]
        duration == IF duration_changed /\ ~dry_run THEN nd[1] ELSE lesson.duration
        normalized == FixNormalizedList(lesson.timestamps, dry_run)
        dense == FixDense(normalized)
        removed == dense.to_remove # {} /\ ~dry_run
        timestamps == IF removed THEN FixRemove(normalized, dense.to_remove) ELSE normalized
        weak == SelectSeq(timestamps, FixRewriteAppliesTo)
        final == [n \in 1..Len(timestamps) |->
                    FixRewrittenEntry(timestamps[n], lesson.content, dry_run)]
    IN [lesson |-> [lesson EXCEPT !.duration = duration, !.timestamps = final],
        result |->
          [lesson_id |-> lesson.id,
           duration_changed |-> duration_changed,
           normalized_times |->
              (IF duration_changed THEN <<[old |-> lesson.duration, new |-> nd[1]]>> ELSE <<>>)
              \o FixNormalizedLog(lesson.timestamps),
           removed_dense_pairs |-> dense.pairs,
           rewritten |-> [n \in 1..Len(weak) |-> FixRewriteOf(weak[n], lesson.content)],
           notes |-> <<>>]]


\* ------------------------------------------------------------------------
\* fix_timestamps_enhanced: keywords and rewrite heuristics
\* ------------------------------------------------------------------------

IsUpperC(c) == c \in UpperSet

IsLowerC(c) == c \in LowerSet

\* end (exclusive) of the run of lower-case letters starting at i
RECURSIVE LowerRunEnd(_, _)
LowerRunEnd(str, i) ==
    IF i <= Len(str) /\ IsLowerC(CharAt(str, i)) THEN LowerRunEnd(str, i + 1) ELSE i

\* re.findall(r'\b[A-Z][a-z]+|\b[A-Z]+\b|\b\w+', title): one match per run of
\* word characters, starting at the run's first character: a capital followed
\* by lower-case letters stops at the last of them, anything else is the run
TitleWords(title) ==
    LET runs == RunsFrom(2, title, 1)
        match(r) ==
            IF /\ IsUpperC(CharAt(title, r.from))
               /\ r.from < r.to
               /\ IsLowerC(CharAt(title, r.from + 1))
            THEN SubSeq(title, r.from, LowerRunEnd(title, r.from + 1) - 1)
            ELSE SubSeq(title, r.from, r.to)
    IN [n \in 1..Len(runs) |-> match(runs[n])]

\* the lower-cased terms of TECH_KEYWORDS
TECH_TERMS ==
    {"llm", "language model", "ai model", "gpt",
     "rag", "retrieval", "augmented", "vector", "embedding",
     "agent", "autonomous", "tool", "workflow",
     "api", "endpoint", "rest", "request", "response",
     "database", "db", "sql", "vector store", "index",
     "deploy", "production", "hosting", "server",
     "test", "validate", "qa", "unit test", "integration",
     "config", "setup", "environment", "settings",
     "chain", "pipeline", "sequence",
     "prompt", "template", "instruction", "context"}

\* the header captured by r'^#{2,3}\s+(.+)$' on a one-line content
Headers(content) ==
    IF StartsWith(content, "### ") /\ Len(content) > 4
    THEN <<SubSeq(content, 5, Len(content))>>
    ELSE IF StartsWith(content, "## ") /\ Len(content) > 3
    THEN <<SubSeq(content, 4, Len(content))>>
    ELSE <<>>

\* re.findall(r'\b\w+\b', header)
HeaderWords(header) ==
    LET runs == RunsFrom(2, header, 1)
    IN [n \in 1..Len(runs) |-> SubSeq(header, runs[n].from, runs[n].to)]

\* fix_timestamps_enhanced.extract_keywords_from_content, as the set it builds
\* (the list made of it has no defined order)
extract_keywords_from_content(content, title) ==
    LET content_lower == Lower(content)
        hs == Headers(content)
    IN {Lower(w) : w \in {x \in Range(TitleWords(title)) : Len(x) > 3}}
       \cup {t \in TECH_TERMS : Contains(t, content_lower)}
       \cup UNION {{Lower(w) : w \in {x \in Range(HeaderWords(hs[n])) : Len(x) > 3}}
                     : n \in 1..Len(hs)}

\* [w for w in keywords if len(w) > 4][:2] for some order of list(set(...))
TitleKeywordChoices(keywords) ==
    LET long == {w \in keywords : Len(w) > 4}
    IN IF long = {} THEN {<<>>}
       ELSE IF Cardinality(long) = 1 THEN {<<w>> : w \in long}
       ELSE {<<a, b>> : a \in long, b \in long} \ {<<a, a>> : a \in long}

position_labels ==
    <<"Core Concepts", "Implementation Details", "Practical Example",
      "Code Walkthrough", "Best Practices", "Common Patterns",
      "Advanced Topics", "Troubleshooting", "Performance Tips",
      "Security Considerations", "Integration Points", "Next Steps">>

\* fix_timestamps_enhanced.generate_smart_label
generate_smart_label(timestamp_idx, keywords, existing_labels) ==
    LET relevant_tech == keywords \ GENERIC_TERMS
        has(w) == w \in relevant_tech
        used == Range(existing_labels)
        unused == SelectSeq(position_labels, LAMBDA l : l \notin used)
    IN
    IF timestamp_idx = 0 /\ "introduction" \notin used
    THEN "Course Introduction"
    ELSE IF timestamp_idx = 1 /\ (has("setup") \/ has("config") \/ has("environment"))
    THEN "Environment Setup"
    ELSE IF has("api")
    THEN (IF has("build") THEN "Build API"
          ELSE IF has("test") THEN "Test API" ELSE "API Configuration")
    ELSE IF has("rag")
    THEN (IF has("implement") THEN "Implement RAG"
          ELSE IF has("vector") THEN "Vector Storage" ELSE "RAG Pipeline")
    ELSE IF has("agent")
    THEN (IF has("multi") THEN "Multi-Agent System"
          ELSE IF has("tool") THEN "Agent Tools" ELSE "Agent Architecture")
    ELSE IF has("deploy") THEN "Production Deployment"
    ELSE IF has("test") THEN "Testing Strategy"
    ELSE IF unused # <<>> THEN unused[1]
    ELSE "Section " \o ToString(timestamp_idx + 1)

\* the descriptions table of generate_smart_description, in insertion order
SmartDescriptions(topic) ==
    << <<"course introduction", "Overview of " \o topic \o " and learning objectives">>,
       <<"environment setup", "Configure development tools for " \o topic>>,
       <<"core concepts", "Fundamental principles of " \o topic \o " explained">>,
       <<"implementation details", "Step-by-step coding of " \o topic \o " features">>,
       <<"practical example", "Real-world application of " \o topic \o " techniques">>,
       <<"code walkthrough", "Line-by-line explanation of " \o topic \o " implementation">>,
       <<"best practices", "Industry standards for " \o topic \o " development">>,
       <<"api configuration", "Set up endpoints and authentication for " \o topic>>,
       <<"rag pipeline", "Build retrieval and generation components">>,
       <<"vector storage", "Configure embeddings and similarity search">>,
       <<"agent architecture", "Design autonomous decision-making systems">>,
       <<"multi-agent system", "Coordinate multiple AI agents effectively">>,
       <<"production deployment", "Deploy " \o topic \o " to cloud infrastructure">>,
       <<"testing strategy", "Validate " \o topic \o " with comprehensive tests">>,
       <<"performance tips", "Optimize " \o topic \o " for speed and efficiency">>,
       <<"troubleshooting", "Debug common " \o topic \o " implementation issues">>,
       <<"next steps", "Advanced topics and further " \o topic \o " resources">> >>

\* fix_timestamps_enhanced.generate_smart_description; title_keywords is the
\* pair the unordered keyword list yields
generate_smart_description(label, title_keywords) ==
    LET label_lower == Lower(label)
        topic == IF title_keywords # <<>> THEN Join(" and ", title_keywords) ELSE "concepts"
        table == SmartDescriptions(topic)
        hits == SelectSeq(table, LAMBDA e : Contains(e[1], label_lower))
    IN
    IF hits # <<>> THEN Truncate(hits[1][2], DESC_WORDS_MAX * 6)
    ELSE IF Contains("build", label_lower) \/ Contains("create", label_lower)
    THEN "Build functional " \o topic \o " with error handling"
    ELSE IF Contains("test", label_lower)
    THEN "Validate " \o topic \o " functionality and edge cases"
    ELSE IF Contains("deploy", label_lower)
    THEN "Deploy " \o topic \o " to production environment"
    ELSE IF Contains("configure", label_lower) \/ Contains("setup", label_lower)
    THEN "Configure " \o topic \o " parameters and dependencies"
    ELSE "Learn " \o topic \o " implementation techniques"


\* ------------------------------------------------------------------------
\* fix_timestamps_enhanced.fix_lesson_timestamps
\* ------------------------------------------------------------------------

NoTime == BadTime

\* one entry of changes_summary
Change(kind, time, time2, old, new) ==
    [kind |-> kind, time |-> time, time2 |-> time2, old |-> old, new |-> new]

TO_REVIEW == "TO_REVIEW"

\* int() raises inside normalize_time for the duration or a timestamp
EnhRaises(lesson) ==
    \/ EnhNormalizeRaises(lesson.duration)
    \/ \E n \in 1..Len(lesson.timestamps) : EnhNormalizeRaises(lesson.timestamps[n].time)

\* step 2: the entries with normalized times, each with the position i it has
\* in the lesson's list and its seconds value s
EnhNormalized(timestamps) ==
    [n \in 1..Len(timestamps) |->
        LET t == EnhNormalizeTime(timestamps[n].time)
        IN [s |-> EnhTimeToSeconds(t), i |-> n, ts |-> [timestamps[n] EXCEPT !.time = t]]]

EnhNormalizedLog(timestamps) ==
    LET changed == SelectSeq(timestamps, LAMBDA ts : EnhNormalizeTime(ts.time) # ts.time)
    IN [n \in 1..Len(changed) |->
          Change("normalized", changed[n].time, EnhNormalizeTime(changed[n].time), "", "")]

\* step 3: the range filter
EnhInRange(e, duration_seconds) == e.s < duration_seconds

\* step 5, inner while: merge into current the entries from j on that are
\* closer than min_sep: [current, j, log]
RECURSIVE EnhMergeInto(_, _, _, _, _)
EnhMergeInto(list, current, j, log, min_sep) ==
    IF j <= Len(list) /\ list[j].s - current.s < min_sep
    THEN EnhMergeInto(list,
             [current EXCEPT !.ts.description = @ \o "; " \o list[j].ts.description],
             j + 1,
             Append(log, Change("merged", current.ts.time, list[j].ts.time, "", "")),
             min_sep)
    ELSE [current |-> current, j |-> j, log |-> log]

\* step 5, outer while
RECURSIVE EnhMergeFrom(_, _, _, _, _)
EnhMergeFrom(list, i, merged, log, min_sep) ==
    IF i > Len(list) THEN [list |-> merged, log |-> log]
    ELSE LET r == EnhMergeInto(list, list[i], i + 1, log, min_sep)
         IN EnhMergeFrom(list, r.j, Append(merged, r.current), r.log, min_sep)

EnhMerge(list) == EnhMergeFrom(list, 1, <<>>, <<>>, MIN_SEPARATION_S)

\* gap > duration_seconds * MAX_GAP_PERCENT
EnhGapTooLong(gap, duration_seconds) == gap * MAX_GAP_DIVISOR > duration_seconds

\* mid_point = prev_seconds + gap // 2
EnhMidPoint(prev_seconds, gap) == prev_seconds + (gap \div 2)

\* step 6: gaps_to_fill
EnhGapsToFill(list, duration_seconds) ==
    LET at == SelectSeq([n \in 1..Len(list) |-> n],
                        LAMBDA n : n > 1 /\ EnhGapTooLong(list[n].s - list[n-1].s, duration_seconds))
    IN [n \in 1..Len(at) |->
          LET mid_point == EnhMidPoint(list[at[n] - 1].s, list[at[n]].s - list[at[n] - 1].s)
          IN [s |-> mid_point, i |-> 0,
              ts |-> [time |-> SecondsToTime(mid_point),
                      label |-> TO_REVIEW,
                      description |-> "Section needs manual review for content"]]]

EnhCoverage(list, duration_seconds) ==
    IF Len(list) > 1
    THEN LET gaps == EnhGapsToFill(list, duration_seconds)
         IN [list |-> SortByS(list \o gaps),
             log |-> [n \in 1..Len(gaps) |-> Change("coverage", gaps[n].ts.time, NoTime, "", "")]]
    ELSE [list |-> list, log |-> <<>>]

\* step 8: the rewrite loop from position n on
RECURSIVE EnhRewriteFrom(_, _, _, _, _, _, _)
EnhRewriteFrom(list, n, out, existing_labels, log, keywords, title_keywords) ==
    IF n > Len(list) THEN [list |-> out, log |-> log]
    ELSE LET ts == list[n].ts
             rl == EnhRewritesLabel(ts.label, existing_labels)
             new_label == IF rl THEN generate_smart_label(n - 1, keywords, existing_labels)
                          ELSE ts.label
             rd == EnhRewritesDescription(ts.description, ts.label)
             new_desc == IF rd THEN generate_smart_description(new_label, title_keywords)
                         ELSE ts.description
             log1 == IF rl THEN Append(log, Change("label", ts.time, NoTime, ts.label, new_label))
                     ELSE log
             log2 == IF rd THEN Append(log1, Change("description", ts.time, NoTime, ts.description, new_desc))
                     ELSE log1
         IN EnhRewriteFrom(list, n + 1,
                Append(out, [list[n] EXCEPT !.ts.label = new_label, !.ts.description = new_desc]),
                Append(existing_labels, new_label), log2, keywords, title_keywords)

\* fix_lesson_timestamps(lesson, audit_data), for a lesson on which normalize_time
\* does not raise; title_keywords is the pair list(set(keywords)) happens to yield.
\* origin gives, for each entry of updated_timestamps, the position of the same
\* dict in the lesson's list (0 for a synthesized entry).
fix_lesson_timestamps(lesson, title_keywords) ==
    LET content == Truncate(lesson.content, 2000)
        duration_str == EnhNormalizeTime(lesson.duration)
        duration_seconds == EnhTimeToSeconds(duration_str)
        log1 == IF lesson.duration # duration_str
                THEN <<Change("duration", lesson.duration, duration_str, "", "")>>
                ELSE <<>>
        log2 == log1 \o EnhNormalizedLog(lesson.timestamps)
        ranged == SelectSeq(EnhNormalized(lesson.timestamps),
                            LAMBDA e : EnhInRange(e, duration_seconds))
        sorted == SortByS(ranged)
        merged == EnhMerge(sorted)
        covered == EnhCoverage(merged.list, duration_seconds)
        keywords == extract_keywords_from_content(content, lesson.title)
        rewritten == EnhRewriteFrom(covered.list, 1, <<>>, <<>>, <<>>, keywords, title_keywords)
        manual == IF \E n \in 1..Len(rewritten.list) : rewritten.list[n].ts.label = TO_REVIEW
                  THEN <<Change("manual_review", NoTime, NoTime, "", "")>>
                  ELSE <<>>
    IN [lesson_id |-> lesson.id,
        updated_timestamps |-> [n \in 1..Len(rewritten.list) |-> rewritten.list[n].ts],
        origin |-> [n \in 1..Len(rewritten.list) |-> rewritten.list[n].i],
        changes_summary |-> log2 \o merged.log \o covered.log \o rewritten.log \o manual]

\* the loop body of fix_timestamps_enhanced.main for one lesson, dry-run off:
\* the lesson as it stands in course_data afterwards
EnhApply(lesson, result) ==
    IF result.changes_summary # <<>>
    THEN LET dur == SelectSeq(result.changes_summary, LAMBDA c : c.kind = "duration")
         IN [lesson EXCEPT !.timestamps = result.updated_timestamps,
                           !.duration = IF dur # <<>> THEN dur[1].time2 ELSE @]
    ELSE lesson


\* ------------------------------------------------------------------------
\* The tools that rewrite videoPath / timestamps wholesale
\* ------------------------------------------------------------------------

\* a key that is not in the lesson dict
Absent == "<absent>"

\* position of the last '/' in str, 0 if none
LastSlash(str) ==
    LET at == {i \in 1..Len(str) : CharAt(str, i) = "/"}
    IN IF at = {} THEN 0 ELSE CHOOSE i \in at : \A j \in at : j <= i

\* os.path.basename
Basename(str) == SubSeq(str, LastSlash(str) + 1, Len(str))

\* migrate_to_video_paths.convert_url_to_path
convert_url_to_path(video_url) ==
    IF video_url = "" THEN ""
    ELSE IF Contains("cohort_2", video_url) THEN "cohort_2/" \o Basename(video_url)
    ELSE IF Contains("cohort_3", video_url) THEN "cohort_3/" \o Basename(video_url)
    ELSE "cohort_2/" \o Basename(video_url)

\* str.replace(sub, '') from position i on
RECURSIVE RemoveAllFrom(_, _, _)
RemoveAllFrom(str, sub, i) ==
    IF i > Len(str) THEN ""
    ELSE IF i + Len(sub) - 1 <= Len(str) /\ SubSeq(str, i, i + Len(sub) - 1) = sub
    THEN RemoveAllFrom(str, sub, i + Len(sub))
    ELSE CharAt(str, i) \o RemoveAllFrom(str, sub, i + 1)

\* migrate_course_json, loop body: the lesson afterwards
MigrateLesson(lesson, dry) ==
    IF lesson.videoUrl # "" /\ lesson.videoUrl # Absent /\ ~dry
    THEN [lesson EXCEPT !.videoPath = convert_url_to_path(lesson.videoUrl)]
    ELSE lesson

\* migrate_course_json, loop body: the records appended to changes
MigrateChanges(lesson) ==
    IF lesson.videoUrl # "" /\ lesson.videoUrl # Absent
    THEN <<[lesson |-> lesson.id, videoUrl |-> lesson.videoUrl,
            videoPath |-> convert_url_to_path(lesson.videoUrl)]>>
    ELSE <<>>

\* fix_video_paths, loop body
VideoPathChanged(lesson) ==
    lesson.videoPath # Absent /\ StartsWith(lesson.videoPath, "cohort_2/")

FixVideoPathLesson(lesson) ==
    IF VideoPathChanged(lesson)
    THEN [lesson EXCEPT !.videoPath = RemoveAllFrom(lesson.videoPath, "cohort_2/", 1)]
    ELSE lesson

\* apply_week6_timestamps, loop body: the lesson has a proposal that is applied
Week6Applies(lesson, props) == lesson.week = "week-6" /\ lesson.id \in DOMAIN props

Week6Lesson(lesson, props, dry) ==
    IF Week6Applies(lesson, props) /\ ~dry
    THEN [lesson EXCEPT !.timestamps = props[lesson.id]]
    ELSE lesson

Week6Changes(lesson, props) ==
    IF Week6Applies(lesson, props)
    THEN <<[lesson |-> lesson.id,
            old_timestamp_count |-> Len(lesson.timestamps),
            new_timestamp_count |-> Len(props[lesson.id])]>>
    ELSE <<>>


\* ------------------------------------------------------------------------
\* audit_timestamps.main (one lesson) and audit_timestamps_enhanced.audit_lesson
\* ------------------------------------------------------------------------

\* audit_timestamps_enhanced.TIME_RE: the clean pattern, optionally followed by
\* an annotation
MatchesTimeRe(t) ==
    /\ t.k \in {"hms", "ms"}
    /\ t.m <= 59
    /\ t.s <= 59

\* h*3600 + mm*60 + ss of the groups of a match
MatchSeconds(t) == (IF t.k = "hms" THEN t.h ELSE 0) * 3600 + t.m * 60 + t.s

\* audit_timestamps.to_seconds
AuditToSeconds(hmmss) == IF MatchesCleanRe(hmmss) THEN MatchSeconds(hmmss) ELSE None

\* audit_timestamps.is_h_mm_ss
is_h_mm_ss(t) == MatchesCleanRe(t)

\* audit_timestamps_enhanced.to_seconds
AuditEnhToSeconds(time_str) == IF MatchesTimeRe(time_str) THEN MatchSeconds(time_str) ELSE None

\* audit_timestamps_enhanced.is_clean_duration
is_clean_duration(duration_str) == MatchesCleanRe(duration_str)

\* a severity that does not look at the order flag
SeverityWithoutOrder(has_range, has_order, has_coverage, has_density, has_labelweak, has_descweak) ==
    IF has_range THEN "Critical"
    ELSE IF has_coverage \/ has_density THEN "High"
    ELSE IF has_labelweak \/ has_descweak THEN "Medium"
    ELSE "Low"

\* audit_timestamps.severity_from_flags
severity_from_flags(has_range, has_order, has_coverage, has_density, has_labelweak, has_descweak) ==
    IF has_range \/ has_order THEN "Critical"
    ELSE IF has_coverage \/ has_density THEN "High"
    ELSE IF has_labelweak \/ has_descweak THEN "Medium"
    ELSE "Low"

\* the time strings of a timestamp list
TimesOf(timestamps) == [n \in 1..Len(timestamps) |-> timestamps[n].time]

\* audit_timestamps.main: bad_format
AuditBadFormat(timestamps) == SelectSeq(TimesOf(timestamps), LAMBDA t : ~is_h_mm_ss(t))

\* audit_timestamps.main: times_s, the seconds of the well-formed times
AuditTimesOf(good) == [n \in 1..Len(good) |-> AuditToSeconds(good[n])]

AuditTimesS(timestamps) == AuditTimesOf(SelectSeq(TimesOf(timestamps), is_h_mm_ss))

\* largest of the values before position n, -1 if none (prev of the order check)
RECURSIVE PrevMax(_, _)
PrevMax(times_s, n) ==
    IF n <= 1 THEN -1
    ELSE IF times_s[n - 1] > PrevMax(times_s, n - 1) THEN times_s[n - 1]
    ELSE PrevMax(times_s, n - 1)

\* the positions 1..n, in order
Indices(n) == [i \in 1..n |-> i]

\* the elements of seq at the positions listed in at
Pick(seq, at) == [k \in 1..Len(at) |-> seq[at[k]]]

\* audit_timestamps.main, range check: position i of times_s is reported with
\* the time of timestamps[i]
AuditOutOfRange(timestamps, times_s, duration_s) ==
    IF duration_s = None THEN <<>>
    ELSE Pick(TimesOf(timestamps),
              SelectSeq(Indices(Len(times_s)),
                        LAMBDA n : times_s[n] < 0 \/ times_s[n] > duration_s))

\* audit_timestamps.main, order check
AuditNonMonotonic(timestamps, times_s) ==
    Pick(TimesOf(timestamps),
         SelectSeq(Indices(Len(times_s)), LAMBDA n : times_s[n] < PrevMax(times_s, n)))

\* f"{timestamps[i-1]['time']}→{timestamps[i]['time']}" for the positions in at
AuditPairsAt(times, at) ==
    [k \in 1..Len(at) |-> [prev |-> times[at[k] - 1], curr |-> times[at[k]]]]

\* audit_timestamps.main, density check
AuditTooDense(timestamps, times_s, min_sep_s) ==
    AuditPairsAt(TimesOf(timestamps),
                 SelectSeq(Indices(Len(times_s)),
                           LAMBDA n : n > 1 /\ times_s[n] - times_s[n - 1] < min_sep_s))

\* the coverage_gaps records for the positions in at
AuditGapsAt(times, secs, at) ==
    [k \in 1..Len(at) |-> [start |-> times[at[k] - 1], end |-> times[at[k]],
                           length_s |-> secs[at[k]] - secs[at[k] - 1]]]

\* audit_timestamps.main, coverage check
AuditCoverageGaps(timestamps, times_s, duration_s, max_gap_s) ==
    IF duration_s # None /\ Len(times_s) >= 2
    THEN AuditGapsAt(TimesOf(timestamps), times_s,
                     SelectSeq(Indices(Len(times_s)),
                               LAMBDA n : n > 1 /\ times_s[n] - times_s[n - 1] > max_gap_s))
    ELSE <<>>

\* audit_timestamps.main: vague_labels and weak_descriptions
AuditVagueLabels(timestamps) ==
    TimesOf(SelectSeq(timestamps, LAMBDA t : AuditVagueLabel(t.label)))

AuditWeakDescriptions(timestamps) ==
    TimesOf(SelectSeq(timestamps, LAMBDA t : AuditWeakDescription(t.description, t.label)))

\* the actions list of both audits
AuditActions(duration_ok, has_range, has_order, has_coverage, has_density, summaries_pass) ==
    (IF ~duration_ok THEN <<"fix_duration">> ELSE <<>>)
    \o (IF has_range THEN <<"fix_range">> ELSE <<>>)
    \o (IF has_order THEN <<"fix_order">> ELSE <<>>)
    \o (IF has_coverage THEN <<"fix_coverage">> ELSE <<>>)
    \o (IF has_density THEN <<"fix_density">> ELSE <<>>)
    \o (IF ~summaries_pass THEN <<"rewrite_summaries">> ELSE <<>>)

\* audit_timestamps.main: the JSON lesson entry built from the lists
AuditEntry(lesson_id, duration_ok, bad_format, out_of_range, non_monotonic, too_dense, coverage_gaps, vague_labels, weak_descriptions) ==
    [lesson_id |-> lesson_id,
     duration_ok |-> duration_ok,
     format |-> bad_format,
     out_of_range |-> out_of_range,
     non_monotonic |-> non_monotonic,
     density |-> too_dense,
     coverage_gaps |-> coverage_gaps,
     vague_labels |-> vague_labels,
     weak_descriptions |-> weak_descriptions,
     severity |-> severity_from_flags(out_of_range # <<>>, non_monotonic # <<>>,
                                      coverage_gaps # <<>>, too_dense # <<>>,
                                      vague_labels # <<>>, weak_descriptions # <<>>),
     timestamps_pass |-> duration_ok /\ out_of_range = <<>> /\ non_monotonic = <<>>
                         /\ coverage_gaps = <<>> /\ too_dense = <<>>,
     summaries_pass |-> vague_labels = <<>> /\ weak_descriptions = <<>>,
     overall |-> IF duration_ok /\ out_of_range = <<>> /\ non_monotonic = <<>>
                    /\ coverage_gaps = <<>> /\ too_dense = <<>>
                    /\ vague_labels = <<>> /\ weak_descriptions = <<>>
                 THEN "pass" ELSE "needs_fixes",
     actions |-> AuditActions(duration_ok, out_of_range # <<>>, non_monotonic # <<>>,
                              coverage_gaps # <<>>, too_dense # <<>>,
                              vague_labels = <<>> /\ weak_descriptions = <<>>)]

\* audit_timestamps.main, loop body, once times_s and duration_s are known
AuditChecks(lesson, duration_ok, duration_s, times_s) ==
    AuditEntry(lesson.id, duration_ok,
               AuditBadFormat(lesson.timestamps),
               AuditOutOfRange(lesson.timestamps, times_s, duration_s),
               AuditNonMonotonic(lesson.timestamps, times_s),
               AuditTooDense(lesson.timestamps, times_s, MIN_SEP_S),
               AuditCoverageGaps(lesson.timestamps, times_s, duration_s, MAX_GAP_S),
               AuditVagueLabels(lesson.timestamps),
               AuditWeakDescriptions(lesson.timestamps))

\* audit_timestamps.main, loop body: the report entry of one lesson
AuditMainLesson(lesson) ==
    AuditChecks(lesson,
                is_h_mm_ss(lesson.duration),
                IF is_h_mm_ss(lesson.duration) THEN AuditToSeconds(lesson.duration) ELSE None,
                AuditTimesS(lesson.timestamps))

\* audit_timestamps_enhanced.audit_lesson: times_s, the parsed entries
AuditEnhTimesS(timestamps) ==
    [n \in 1..Len(timestamps) |-> [s |-> AuditEnhToSeconds(timestamps[n].time),
                                   time |-> timestamps[n].time,
                                   ts |-> timestamps[n]]]

AuditEnhParsed(timestamps) == SelectSeq(AuditEnhTimesS(timestamps), LAMBDA e : e.s # None)

\* issues["format"]
AuditEnhFormat(timestamps) ==
    SelectSeq(TimesOf(timestamps), LAMBDA t : AuditEnhToSeconds(t) = None)

AuditEnhTimes(entries) == [n \in 1..Len(entries) |-> entries[n].time]

\* "if duration_s and (time_s < 0 or time_s > duration_s)"
AuditEnhOutOfRange(times_s, duration_s) ==
    AuditEnhTimes(SelectSeq(times_s, LAMBDA e : /\ duration_s # None
                                                /\ duration_s # 0
                                                /\ (e.s < 0 \/ e.s > duration_s)))

AuditEnhVagueLabels(times_s) ==
    AuditEnhTimes(SelectSeq(times_s, LAMBDA e : ~check_label_quality(e.ts.label)))

AuditEnhWeakDescriptions(times_s) ==
    AuditEnhTimes(SelectSeq(times_s,
                            LAMBDA e : ~check_description_quality(e.ts.description, e.ts.label)))

\* the seconds of the parsed entries
AuditEnhSeconds(times_s) == [n \in 1..Len(times_s) |-> times_s[n].s]

\* order check: an entry earlier than the one before it
AuditEnhNonMonotonic(times_s) ==
    Pick(AuditEnhTimes(times_s),
         SelectSeq(Indices(Len(times_s)), LAMBDA n : n > 1 /\ times_s[n].s < times_s[n - 1].s))

AuditEnhDensity(times_s) ==
    AuditPairsAt(AuditEnhTimes(times_s),
                 SelectSeq(Indices(Len(times_s)),
                           LAMBDA n : n > 1 /\ times_s[n].s - times_s[n - 1].s < MIN_SEP_S))

AuditEnhCoverageGaps(times_s) ==
    AuditGapsAt(AuditEnhTimes(times_s), AuditEnhSeconds(times_s),
                SelectSeq(Indices(Len(times_s)),
                          LAMBDA n : n > 1 /\ times_s[n].s - times_s[n - 1].s > MAX_GAP_S))

\* audit_lesson: acceptance and the returned record
AuditEnhEntry(lesson_id, duration_ok, format, out_of_range, non_monotonic, density, coverage_gaps, vague_labels, weak_descriptions) ==
    [lesson_id |-> lesson_id,
     duration_ok |-> duration_ok,
     format |-> format,
     out_of_range |-> out_of_range,
     non_monotonic |-> non_monotonic,
     density |-> density,
     coverage_gaps |-> coverage_gaps,
     vague_labels |-> vague_labels,
     weak_descriptions |-> weak_descriptions,
     timestamps_pass |-> duration_ok /\ format = <<>> /\ out_of_range = <<>>
                         /\ non_monotonic = <<>> /\ density = <<>> /\ coverage_gaps = <<>>,
     summaries_pass |-> vague_labels = <<>> /\ weak_descriptions = <<>>,
     overall |-> IF duration_ok /\ format = <<>> /\ out_of_range = <<>>
                    /\ non_monotonic = <<>> /\ density = <<>> /\ coverage_gaps = <<>>
                    /\ vague_labels = <<>> /\ weak_descriptions = <<>>
                 THEN "pass" ELSE "needs_fixes",
     actions |-> AuditActions(duration_ok, out_of_range # <<>>, non_monotonic # <<>>,
                              coverage_gaps # <<>>, density # <<>>,
                              vague_labels = <<>> /\ weak_descriptions = <<>>)]

AuditEnhChecks(lesson, duration_ok, duration_s, times_s) ==
    AuditEnhEntry(lesson.id, duration_ok,
                  AuditEnhFormat(lesson.timestamps),
                  AuditEnhOutOfRange(times_s, duration_s),
                  AuditEnhNonMonotonic(times_s),
                  AuditEnhDensity(times_s),
                  AuditEnhCoverageGaps(times_s),
                  AuditEnhVagueLabels(times_s),
                  AuditEnhWeakDescriptions(times_s))

\* audit_timestamps_enhanced.audit_lesson
audit_lesson(lesson) ==
    AuditEnhChecks(lesson,
                   is_clean_duration(lesson.duration),
                   IF is_clean_duration(lesson.duration)
                   THEN AuditEnhToSeconds(lesson.duration) ELSE None,
                   AuditEnhParsed(lesson.timestamps))

\* ------------------------------------------------------------------------
\* Input documents
\* ------------------------------------------------------------------------

\* longest timestamp list of an input lesson
MaxTs == 3

\* number of fixer or audit runs in a behaviour
MaxRuns == 2

\* number of runs in a behaviour of all five writing tools
MaxToolRuns == 1

Entry(time, label, description) ==
    [time |-> time, label |-> label, description |-> description]

E0 == Entry(HMS(0, 0, 0), "Overview", "What to expect from the whole course")

E5 == Entry(HMS(0, 0, 5), "Prompt Patterns", "Design prompts for real user tasks")

E7 == Entry(MS(0, 7), "Vector Tuning", "Tune recall of the vector index")

E20 == Entry(HMS(0, 0, 20), "Agent Memory", "Store turns so agents can recall")

E90 == Entry(HMS(0, 1, 30), "Closing Questions", "Students ask about the next cohort")

EBad == Entry(BadTime, "Token Budgets", "Estimate cost from the prompt size")

ENan == Entry(NanTime, "Streamed Output", "Render tokens as they arrive upstream")

EntryInputs == {E0, E5, E7, E20, E90, EBad, ENan}

E40 == Entry(HMS(0, 0, 40), "Tool Calling", "Let the agent call external tools")

\* "0:01:00" and "1:30"
DurationInputs == {HMS(0, 1, 0), MS(1, 30)}

\* the lists of at most n distinct entries of a set
ListsUpTo(entries, n) ==
    UNION {{l \in [1..k -> entries] : \A a, b \in 1..k : a # b => l[a] # l[b]}
             : k \in 0..n}

Lesson(id, week, duration, timestamps, videoUrl, videoPath) ==
    [id |-> id, week |-> week, title |-> "RAG Agents", duration |-> duration,
     content |-> "Deploy the api", timestamps |-> timestamps,
     videoUrl |-> videoUrl, videoPath |-> videoPath]

TsLesson(duration, timestamps) ==
    Lesson("lesson-1", "week-1", duration, timestamps, "/videos/cohort_2/week_01/a.mp4", Absent)

\* a course document as stored in a file; ok is FALSE for a file that a
\* failed write left truncated
Doc(lessons) == [ok |-> TRUE, lessons |-> lessons]

Corrupt == [ok |-> FALSE, lessons |-> <<>>]

\* documents of one lesson for the timestamp fixers
TimestampDocs ==
    {Doc(<<TsLesson(HMS(0, 1, 0), l)>>) : l \in ListsUpTo(EntryInputs, MaxTs)}
    \cup {Doc(<<TsLesson(d, l)>>) : d \in DurationInputs, l \in ListsUpTo(EntryInputs, 1)}
    \cup {Doc(<<TsLesson(HMS(0, 1, 0), l)>>) : l \in ListsUpTo({E0, E40}, 2)}

\* documents for the runs of all five tools
VideoUrlInputs == {"/videos/cohort_2/week_01/a.mp4", "/videos/cohort_3/b.mp4", ""}

VideoPathInputs == {Absent, "cohort_2/a.mp4"}

ToolDocs ==
    {Doc(<<TsLesson(HMS(0, 1, 0), l)>>) : l \in ListsUpTo({E0, E5, E7}, MaxTs)}
    \cup {Doc(<<Lesson("lesson-1", "week-6", MS(1, 30), <<E5>>, u, vp)>>)
            : u \in VideoUrlInputs, vp \in VideoPathInputs}
    \cup {Doc(<<Lesson("lesson-1", "week-6", HMS(0, 1, 0), <<E0, E5>>,
                       "/videos/cohort_2/week_01/a.mp4", "cohort_2/a.mp4"),
                Lesson("lesson-2", "week-1", HMS(0, 1, 0), <<E7>>, "", Absent)>>)}
    \cup {Corrupt}

ProposalInputs == {[id \in {} |-> <<>>], [id \in {"lesson-1"} |-> <<E20>>]}

\* documents for the audits: one timestamp with every label / description pair,
\* and lists with structural defects
LabelInputs ==
    {"Prompt Patterns", "Overview", "overview recap", "API overview", "Core Concepts",
     "Build_the thing"}

DescriptionInputs ==
    {"Design prompts for real user tasks", "Short text",
     "prompt patterns prompt patterns prompt", "An overview of the api surface"}

EAnn == Entry(Annotated(HMS(0, 0, 40)), "Retrieval Quality", "Measure how often the answer is grounded")

E1200 == Entry(HMS(0, 20, 0), "Cost Controls", "Cap spend per request and per user")

AuditEntryInputs == {E5, E20, EBad, ENan, EAnn, E1200}

AuditDurationInputs == {HMS(0, 1, 0), HMS(0, 30, 0), BadTime}

\* longest timestamp list of a lesson given to the audits
MaxAuditTs == 2

AuditDocs ==
    {Doc(<<TsLesson(HMS(0, 1, 0), <<Entry(HMS(0, 0, 20), l, d)>>)>>)
        : l \in LabelInputs, d \in DescriptionInputs}
    \cup {Doc(<<TsLesson(d, l)>>)
            : d \in AuditDurationInputs, l \in ListsUpTo(AuditEntryInputs, MaxAuditTs)}

\* ------------------------------------------------------------------------
\* Tool runs on the course document
\* ------------------------------------------------------------------------

VARIABLES
    doc,          \* content of src/content/course.json
    backups,      \* contents of the backup files written so far, in order
    proposals,    \* week6_timestamps_proposal.json: lesson id -> timestamp list
    tool,         \* the tool that is running, "none" between runs
    dry_run,      \* its dry_run argument
    args,         \* its other arguments
    pc,           \* position in Steps(tool, dry_run), 0 between runs
    course_data,  \* the document loaded in memory
    idx,          \* position of the lesson loop
    results,      \* per-lesson results collected by the run
    pre,          \* content of course.json when the run started
    pre_backups,  \* number of backup files written before the run started
    history,      \* the finished runs
    runner,       \* the RobustBatchRunner process: its fields and its position
    checkpoint,   \* content of logs/cohort3_checkpoint.json
    transcripts,  \* ids of the videos with valid transcript files on disk
    recorded,     \* what the completely written checkpoints have listed so far
    workflow      \* the WorkflowOrchestrator: its results and its position

tool_vars == <<doc, backups, proposals, tool, dry_run, args, pc, course_data, idx,
               results, pre, pre_backups, history>>

batch_vars == <<runner, checkpoint, transcripts, recorded>>

vars == <<tool_vars, batch_vars, workflow>>

\* manifest['videos'], each by its video_id f"week_{week}_class_{lesson}"
Videos == <<"week_1_class_1", "week_1_class_2">>

VideoIds == Range(Videos)

\* the failed dict as a count per id, 0 for an id that is not a key
NoFailures == [v \in VideoIds |-> 0]

\* no checkpoint file
NoCheckpoint == [exists |-> FALSE, ok |-> TRUE, completed |-> {}, failed |-> NoFailures]

\* no RobustBatchRunner process. Fields of the object: completed, failed,
\* stop_requested; of the process: pc (position), sigint (disposition of
\* SIGINT), i (loop position of run), retry_count and success (process_video).
\* Bookkeeping: attempts, waits and error of the current process_video call,
\* loaded (what load_checkpoint found), outcome (what process_video returned
\* for each video in this run), interrupted (the video in progress when the
\* handler fired), ended (how the last process ended).
RunnerEnded(ended) ==
    [pc |-> "off", i |-> 1, completed |-> {}, failed |-> NoFailures,
     stop_requested |-> FALSE, sigint |-> "default", retry_count |-> 0,
     success |-> FALSE, attempts |-> 0, waits |-> <<>>, error |-> "",
     loaded |-> [completed |-> {}, failed |-> NoFailures],
     outcome |-> [v \in VideoIds |-> "none"], interrupted |-> "none",
     ended |-> ended]

RunnerOff == RunnerEnded("none")

\* nothing written to a checkpoint yet
NothingRecorded == [completed |-> {}, exhausted |-> {}]

\* no WorkflowOrchestrator process
WorkflowOff ==
    [pc |-> "off", phase |-> 1, started |-> <<>>, returned |-> <<>>,
     success |-> FALSE, enable_content_analysis |-> TRUE,
     workflow_success |-> FALSE, report_written |-> FALSE, result |-> "none"]

\* the scripts of the transcription package are not running
ScriptsIdle ==
    /\ runner = RunnerOff
    /\ checkpoint = NoCheckpoint
    /\ transcripts = {}
    /\ recorded = NothingRecorded
    /\ workflow = WorkflowOff

\* the order of a run that saves the course document before it takes the backup
StepsWriteFirst(t, dry) ==
    IF dry THEN <<"load", "process">>
    ELSE <<"load", "process", "write", "backup">>

\* the order in which a run reads, backs up, processes, writes and reports
Steps(t, dry) ==
    IF t = "fix"
    THEN <<"load">> \o (IF dry THEN <<>> ELSE <<"backup">>) \o <<"process">>
         \o (IF dry THEN <<>> ELSE <<"write">>) \o <<"report">>
    ELSE IF t = "enh"
    THEN (IF dry THEN <<>> ELSE <<"backup">>) \o <<"load", "process">>
         \o (IF dry THEN <<>> ELSE <<"write">>) \o <<"report">>
    ELSE IF t = "migrate"
    THEN <<"load", "process">> \o (IF dry THEN <<>> ELSE <<"backup", "write">>)
    ELSE IF t = "week6"
    THEN <<"load">> \o (IF dry THEN <<>> ELSE <<"backup">>) \o <<"process">>
         \o (IF dry THEN <<>> ELSE <<"write">>)
    ELSE IF t = "video"
    THEN <<"backup", "load", "process", "write">>
    ELSE <<"load", "process", "report">>

Step == IF pc >= 1 /\ pc <= Len(Steps(tool, dry_run)) THEN Steps(tool, dry_run)[pc] ELSE "none"

NoArgs == [selection |-> {}, min_sep_s |-> MIN_SEP_S]

NoDoc == [ok |-> TRUE, lessons |-> <<>>]

RunRecord(status, after) ==
    [tool |-> tool, dry_run |-> dry_run, args |-> args, before |-> pre, after |-> after,
     results |-> results, status |-> status,
     backups_before |-> pre_backups, backups_after |-> Len(backups)]

\* the run is over: back to the shell
EndRun(status, after) ==
    /\ history' = Append(history, RunRecord(status, after))
    /\ tool' = "none"
    /\ dry_run' = FALSE
    /\ args' = NoArgs
    /\ pc' = 0
    /\ course_data' = NoDoc
    /\ idx' = 1
    /\ results' = <<>>
    /\ pre' = NoDoc
    /\ pre_backups' = 0

\* the operator starts a tool
Start(t, dry, a) ==
    /\ pc = 0
    /\ tool' = t
    /\ dry_run' = dry
    /\ args' = a
    /\ pc' = 1
    /\ idx' = 1
    /\ pre' = doc
    /\ pre_backups' = Len(backups)
    /\ UNCHANGED <<batch_vars, workflow, doc, backups, proposals, course_data, results, history>>

\* json.load of the course document
Load ==
    /\ Step = "load"
    /\ doc.ok
    /\ course_data' = doc
    /\ pc' = pc + 1
    /\ UNCHANGED <<batch_vars, workflow, doc, backups, proposals, tool, dry_run, args, idx, results, pre, pre_backups, history>>

\* json.load raises on a truncated document
LoadFails ==
    /\ Step = "load"
    /\ ~doc.ok
    /\ EndRun("load_failed", doc)
    /\ UNCHANGED <<batch_vars, workflow, doc, backups, proposals>>

\* shutil.copy2 / json.dump of the stored document into a new backup file
Backup ==
    /\ Step = "backup"
    /\ backups' = Append(backups, doc)
    /\ pc' = pc + 1
    /\ UNCHANGED <<batch_vars, workflow, doc, proposals, tool, dry_run, args, course_data, idx, results, pre, pre_backups, history>>

InLoop == Step = "process" /\ idx <= Len(course_data.lessons)

SetLesson(l) == [course_data EXCEPT !.lessons[idx] = l]

\* the loop body without the selection test
ProcessFixIgnoringSelection ==
    /\ tool = "fix"
    /\ InLoop
    /\ course_data' = SetLesson(process_lesson(course_data.lessons[idx], dry_run).lesson)
    /\ results' = Append(results, process_lesson(course_data.lessons[idx], dry_run).result)
    /\ idx' = idx + 1
    /\ UNCHANGED <<batch_vars, workflow, doc, backups, proposals, tool, dry_run, args, pc, pre, pre_backups, history>>

\* fix_timestamps.main, loop body
ProcessFix ==
    /\ tool = "fix"
    /\ InLoop
    /\ LET lesson == course_data.lessons[idx]
           skip == args.selection # {} /\ lesson.id \notin args.selection
           r == process_lesson(lesson, dry_run)
       IN /\ course_data' = IF skip THEN course_data ELSE SetLesson(r.lesson)
          /\ results' = IF skip THEN results ELSE Append(results, r.result)
    /\ idx' = idx + 1
    /\ UNCHANGED <<batch_vars, workflow, doc, backups, proposals, tool, dry_run, args, pc, pre, pre_backups, history>>

\* fix_timestamps_enhanced.main, loop body
ProcessEnh ==
    /\ tool = "enh"
    /\ InLoop
    /\ LET lesson == course_data.lessons[idx] IN
       /\ ~EnhRaises(lesson)
       /\ \E tk \in TitleKeywordChoices(
                  extract_keywords_from_content(Truncate(lesson.content, 2000), lesson.title)) :
            LET r == fix_lesson_timestamps(lesson, tk)
            IN /\ course_data' = IF dry_run THEN course_data ELSE SetLesson(EnhApply(lesson, r))
               /\ results' = Append(results, r)
    /\ idx' = idx + 1
    /\ UNCHANGED <<batch_vars, workflow, doc, backups, proposals, tool, dry_run, args, pc, pre, pre_backups, history>>

\* fix_timestamps_enhanced.main: normalize_time raises ValueError, the run dies
EnhCrash ==
    /\ tool = "enh"
    /\ InLoop
    /\ EnhRaises(course_data.lessons[idx])
    /\ EndRun("crashed", doc)
    /\ UNCHANGED <<batch_vars, workflow, doc, backups, proposals>>

\* migrate_course_json, loop body
ProcessMigrate ==
    /\ tool = "migrate"
    /\ InLoop
    /\ course_data' = SetLesson(MigrateLesson(course_data.lessons[idx], dry_run))
    /\ results' = results \o MigrateChanges(course_data.lessons[idx])
    /\ idx' = idx + 1
    /\ UNCHANGED <<batch_vars, workflow, doc, backups, proposals, tool, dry_run, args, pc, pre, pre_backups, history>>

\* fix_video_paths, loop body
ProcessVideo ==
    /\ tool = "video"
    /\ InLoop
    /\ course_data' = SetLesson(FixVideoPathLesson(course_data.lessons[idx]))
    /\ results' = results \o (IF VideoPathChanged(course_data.lessons[idx])
                              THEN <<course_data.lessons[idx].id>> ELSE <<>>)
    /\ idx' = idx + 1
    /\ UNCHANGED <<batch_vars, workflow, doc, backups, proposals, tool, dry_run, args, pc, pre, pre_backups, history>>

\* apply_week6_timestamps, loop body
ProcessWeek6 ==
    /\ tool = "week6"
    /\ InLoop
    /\ course_data' = SetLesson(Week6Lesson(course_data.lessons[idx], proposals, dry_run))
    /\ results' = results \o Week6Changes(course_data.lessons[idx], proposals)
    /\ idx' = idx + 1
    /\ UNCHANGED <<batch_vars, workflow, doc, backups, proposals, tool, dry_run, args, pc, pre, pre_backups, history>>

\* audit_timestamps.main, loop body
ProcessAudit ==
    /\ tool = "audit"
    /\ InLoop
    /\ results' = Append(results, AuditMainLesson(course_data.lessons[idx]))
    /\ idx' = idx + 1
    /\ UNCHANGED <<batch_vars, workflow, doc, backups, proposals, tool, dry_run, args, pc, course_data, pre,
                   pre_backups, history>>

\* audit_timestamps_enhanced.main, loop body
ProcessAuditEnh ==
    /\ tool = "audit_enh"
    /\ InLoop
    /\ results' = Append(results, audit_lesson(course_data.lessons[idx]))
    /\ idx' = idx + 1
    /\ UNCHANGED <<batch_vars, workflow, doc, backups, proposals, tool, dry_run, args, pc, course_data, pre,
                   pre_backups, history>>

\* the lesson loop is exhausted
EndLoop ==
    /\ Step = "process"
    /\ idx > Len(course_data.lessons)
    /\ pc' = pc + 1
    /\ UNCHANGED <<batch_vars, workflow, doc, backups, proposals, tool, dry_run, args, course_data, idx, results,
                   pre, pre_backups, history>>

\* open(course, 'w') and json.dump complete
Write ==
    /\ Step = "write"
    /\ doc' = course_data
    /\ pc' = pc + 1
    /\ UNCHANGED <<batch_vars, workflow, backups, proposals, tool, dry_run, args, course_data, idx, results, pre,
                   pre_backups, history>>

\* the write fails after open(course, 'w') truncated the file
WriteFails ==
    /\ Step = "write"
    /\ doc' = Corrupt
    /\ EndRun("write_failed", Corrupt)
    /\ UNCHANGED <<batch_vars, workflow, backups, proposals>>

\* fix_timestamps_enhanced.main binds datetime only inside "if not dry_run":
\* in a dry run datetime.now() raises UnboundLocalError when the report is built
ReportRaises == tool = "enh" /\ dry_run

\* the logs and reports under audits/ are written
Report ==
    /\ Step = "report"
    /\ ~ReportRaises
    /\ pc' = pc + 1
    /\ UNCHANGED <<batch_vars, workflow, doc, backups, proposals, tool, dry_run, args, course_data, idx, results,
                   pre, pre_backups, history>>

\* the run dies while it builds its report
ReportFails ==
    /\ Step = "report"
    /\ ReportRaises
    /\ EndRun("report_failed", doc)
    /\ UNCHANGED <<batch_vars, workflow, doc, backups, proposals>>

\* the tool returns
Finish ==
    /\ pc >= 1
    /\ pc = Len(Steps(tool, dry_run)) + 1
    /\ EndRun("done", doc)
    /\ UNCHANGED <<batch_vars, workflow, doc, backups, proposals>>

InitRun ==
    /\ backups = <<>>
    /\ tool = "none"
    /\ dry_run = FALSE
    /\ args = NoArgs
    /\ pc = 0
    /\ course_data = NoDoc
    /\ idx = 1
    /\ results = <<>>
    /\ pre = NoDoc
    /\ pre_backups = 0
    /\ history = <<>>
    /\ ScriptsIdle

NoProposals == [id \in {} |-> <<>>]

\* the two timestamp fixers on a one-lesson document
Init ==
    /\ doc \in TimestampDocs
    /\ proposals = NoProposals
    /\ InitRun

FixerTools == {"fix", "enh"}

Next ==
    \/ \E t \in FixerTools, dry \in BOOLEAN : Len(history) < MaxRuns /\ Start(t, dry, NoArgs)
    \/ Load
    \/ LoadFails
    \/ Backup
    \/ ProcessFix
    \/ ProcessEnh
    \/ EnhCrash
    \/ EndLoop
    \/ Write
    \/ WriteFails
    \/ Report
    \/ ReportFails
    \/ Finish

Spec == Init /\ [][Next]_vars


\* all five tools on a small set of documents
InitTools ==
    /\ doc \in ToolDocs
    /\ proposals \in ProposalInputs
    /\ InitRun

DryRunTools == {"fix", "enh", "migrate", "week6"}

NextTools ==
    \/ \E t \in DryRunTools, dry \in BOOLEAN :
          Len(history) < MaxToolRuns /\ Start(t, dry, NoArgs)
    \/ Len(history) < MaxToolRuns /\ Start("video", FALSE, NoArgs)
    \/ Load
    \/ LoadFails
    \/ Backup
    \/ ProcessFix
    \/ ProcessEnh
    \/ ProcessMigrate
    \/ ProcessVideo
    \/ ProcessWeek6
    \/ EndLoop
    \/ Write
    \/ WriteFails
    \/ Report
    \/ ReportFails
    \/ Finish

SpecTools == InitTools /\ [][NextTools]_vars

\* the two audits and the two fixers on the audit documents
InitAudit ==
    /\ doc \in AuditDocs
    /\ proposals = NoProposals
    /\ InitRun

AuditTools == {"audit", "audit_enh"}

NextAudit ==
    \/ \E t \in AuditTools : Len(history) < MaxRuns /\ Start(t, FALSE, NoArgs)
    \/ \E t \in FixerTools, dry \in BOOLEAN : Len(history) < MaxRuns /\ Start(t, dry, NoArgs)
    \/ Load
    \/ LoadFails
    \/ Backup
    \/ ProcessAudit
    \/ ProcessAuditEnh
    \/ ProcessFix
    \/ ProcessEnh
    \/ EnhCrash
    \/ EndLoop
    \/ Write
    \/ WriteFails
    \/ Report
    \/ ReportFails
    \/ Finish

SpecAudit == InitAudit /\ [][NextAudit]_vars

\* ------------------------------------------------------------------------
\* Calls of single functions
\* ------------------------------------------------------------------------

\* largest hours field of a time string passed to a function
MaxHours == 2

\* minutes and seconds fields, inside and outside 0..59
FieldInputs == {0, 5, 59, 60, 75}

\* time strings: H:MM:SS, H:M:SS, MM:SS, M:SS, with and without annotation,
\* and strings that are no time
TimeInputs ==
    {[k |-> "hms", h |-> h, m |-> m, s |-> s, mp |-> mp, ann |-> ann] :
        h \in 0..MaxHours, m \in FieldInputs, s \in FieldInputs, mp \in BOOLEAN, ann \in BOOLEAN}
    \cup {[k |-> "ms", h |-> 0, m |-> m, s |-> s, mp |-> mp, ann |-> ann] :
        m \in FieldInputs, s \in FieldInputs, mp \in BOOLEAN, ann \in BOOLEAN}
    \cup {BadTime, NanTime}

\* the arguments of one call
TimeArgs == {[kind |-> "time", time_str |-> t] : t \in TimeInputs}

\* the function returns value to its caller
Returns(call, value) ==
    /\ pc = 0
    /\ results = <<>>
    /\ results' = <<[call |-> call, raised |-> "", returned |-> value]>>
    /\ UNCHANGED <<batch_vars, workflow, doc, backups, proposals, tool, dry_run, args, pc, course_data, idx,
                   pre, pre_backups, history>>

\* the function raises error
Raises(call, error) ==
    /\ pc = 0
    /\ results = <<>>
    /\ results' = <<[call |-> call, raised |-> error, returned |-> None]>>
    /\ UNCHANGED <<batch_vars, workflow, doc, backups, proposals, tool, dry_run, args, pc, course_data, idx,
                   pre, pre_backups, history>>

ValueError == "ValueError"

CallFixNormalizeTime ==
    /\ args.kind = "time"
    /\ Returns("fix_timestamps.normalize_time", FixNormalizeTime(args.time_str))

CallFixToSeconds ==
    /\ args.kind = "time"
    /\ Returns("fix_timestamps.to_seconds", FixToSeconds(args.time_str))

CallEnhNormalizeTime ==
    /\ args.kind = "time"
    /\ IF EnhNormalizeRaises(args.time_str)
       THEN Raises("fix_timestamps_enhanced.normalize_time", ValueError)
       ELSE Returns("fix_timestamps_enhanced.normalize_time", EnhNormalizeTime(args.time_str))

CallEnhTimeToSeconds ==
    /\ args.kind = "time"
    /\ IF EnhNormalizeRaises(args.time_str)
       THEN Raises("fix_timestamps_enhanced.time_to_seconds", ValueError)
       ELSE Returns("fix_timestamps_enhanced.time_to_seconds", EnhTimeToSeconds(args.time_str))

\* the six flags of severity_from_flags, in the order of its parameters
FlagArgs == {[kind |-> "flags", flags |-> f] : f \in [1..6 -> BOOLEAN]}

E10 == Entry(HMS(0, 0, 10), "Chunking Text", "Split documents before they are embedded")

\* lists of three entries in every order, with and without an unparseable one
OrderLessons ==
    {TsLesson(HMS(0, 1, 0), l) :
        l \in {x \in ListsUpTo({E5, E10, E20, EBad}, 3) : Len(x) = 3}}

\* lessons with a two-part M:SS time string
FormatLessons == {TsLesson(HMS(0, 1, 0), l) : l \in ListsUpTo({E7, E20, EBad}, 2)}

\* one lesson of the audit documents, one of the three-entry lessons or one
\* of the lessons with a two-part time string
LessonArgs ==
    {[kind |-> "lesson", lesson |-> d.lessons[1]] : d \in AuditDocs}
    \cup {[kind |-> "lesson", lesson |-> l] : l \in OrderLessons \cup FormatLessons}

CallSeverityFromFlags ==
    /\ args.kind = "flags"
    /\ Returns("audit_timestamps.severity_from_flags",
               severity_from_flags(args.flags[1], args.flags[2], args.flags[3],
                                   args.flags[4], args.flags[5], args.flags[6]))

\* audit_timestamps.main, the loop body on one lesson
CallAuditMainLesson ==
    /\ args.kind = "lesson"
    /\ Returns("audit_timestamps.main", AuditMainLesson(args.lesson))

\* audit_timestamps_enhanced.audit_lesson
CallAuditLesson ==
    /\ args.kind = "lesson"
    /\ Returns("audit_timestamps_enhanced.audit_lesson", audit_lesson(args.lesson))

\* labels: specific, only generic words, a generic word next to a specific
\* one, a single word, seven words, empty
QualityLabels ==
    {"Prompt Patterns", "Overview Recap", "Course Overview", "Overview",
     "Plan Act Check Fix Test Ship Log", ""}

\* descriptions: specific, too short, ten words of which seven are those of
\* the seven-word label, the words of a label repeated, empty
QualityDescriptions ==
    {"Design prompts for real user tasks", "Too short",
     "Plan act check fix test ship log then repeat weekly",
     "Prompt patterns prompt patterns patterns", ""}

\* one label and one description
TextArgs ==
    {[kind |-> "text", label |-> l, description |-> d] :
        l \in QualityLabels, d \in QualityDescriptions}

\* fix_timestamps.is_weak_label
CallIsWeakLabel ==
    /\ args.kind = "text"
    /\ Returns("fix_timestamps.is_weak_label", is_weak_label(args.label))

\* fix_timestamps.is_weak_description
CallIsWeakDescription ==
    /\ args.kind = "text"
    /\ Returns("fix_timestamps.is_weak_description",
               is_weak_description(args.description, args.label))

\* audit_timestamps_enhanced.check_label_quality
CallCheckLabelQuality ==
    /\ args.kind = "text"
    /\ Returns("audit_timestamps_enhanced.check_label_quality",
               check_label_quality(args.label))

\* audit_timestamps_enhanced.check_description_quality
CallCheckDescriptionQuality ==
    /\ args.kind = "text"
    /\ Returns("audit_timestamps_enhanced.check_description_quality",
               check_description_quality(args.description, args.label))

\* audit_timestamps.main, the label and description heuristics on one
\* timestamp: whether it is appended to vague_labels, to weak_descriptions
CallAuditHeuristics ==
    /\ args.kind = "text"
    /\ Returns("audit_timestamps.main heuristics",
               [vague_label |-> AuditVagueLabel(args.label),
                weak_description |-> AuditWeakDescription(args.description, args.label)])

\* keywords of a lesson's content and title
KeywordInputs == SUBSET {"api", "build", "rag", "agent", "deploy", "setup"}

\* the labels already in the lesson: none, or the first labels of the
\* position list
ExistingLabelInputs == {SubSeq(position_labels, 1, k) : k \in {0, 1, 7, 8, 12}}

MaxTimestampIdx == 2

\* a timestamp position, a keyword set and the labels already in use
SmartLabelArgs ==
    {[kind |-> "smart_label", timestamp_idx |-> i, keywords |-> k, existing_labels |-> e] :
        i \in 0..MaxTimestampIdx, k \in KeywordInputs, e \in ExistingLabelInputs}

\* labels generate_smart_label returns, and one of a lesson
SmartLabels ==
    {"Course Introduction", "Build API", "Implement RAG", "Agent Tools",
     "Production Deployment", "Troubleshooting", "Section 3", "Prompt Patterns"}

\* a label and a keyword set
SmartDescriptionArgs ==
    {[kind |-> "smart_description", label |-> l, keywords |-> k] :
        l \in SmartLabels, k \in SUBSET {"api", "vector", "agents"}}

\* lesson contents
ContextInputs ==
    {"", "Deploy the api", "Configure the pinecone database", "We build a class",
     "Vector embeddings retrieval overview", "Set the embeddings"}

\* a weak label, a weak description and the lesson's content
RewriteArgs ==
    {[kind |-> "rewrite", old_label |-> "Overview", old_desc |-> "Too short", context |-> c] :
        c \in ContextInputs}

\* fix_timestamps_enhanced.generate_smart_label
CallGenerateSmartLabel ==
    /\ args.kind = "smart_label"
    /\ Returns("fix_timestamps_enhanced.generate_smart_label",
               generate_smart_label(args.timestamp_idx, args.keywords, args.existing_labels))

\* fix_timestamps_enhanced.generate_smart_description, for each order the
\* keyword list can have
CallGenerateSmartDescription ==
    /\ args.kind = "smart_description"
    /\ \E title_keywords \in TitleKeywordChoices(args.keywords) :
          Returns("fix_timestamps_enhanced.generate_smart_description",
                  generate_smart_description(args.label, title_keywords))

\* fix_timestamps.rewrite_label
CallRewriteLabel ==
    /\ args.kind = "rewrite"
    /\ Returns("fix_timestamps.rewrite_label", rewrite_label(args.old_label, args.context))

\* fix_timestamps.rewrite_description on the label rewrite_label returned
CallRewriteDescription ==
    /\ args.kind = "rewrite"
    /\ \E label \in {args.old_label, rewrite_label(args.old_label, args.context)} :
          Returns("fix_timestamps.rewrite_description",
                  rewrite_description(args.old_desc, label, args.context))

CallInputs ==
    TimeArgs \cup FlagArgs \cup LessonArgs \cup TextArgs
    \cup SmartLabelArgs \cup SmartDescriptionArgs \cup RewriteArgs

InitCalls ==
    /\ doc = NoDoc
    /\ proposals = NoProposals
    /\ backups = <<>>
    /\ tool = "none"
    /\ dry_run = FALSE
    /\ args \in CallInputs
    /\ pc = 0
    /\ course_data = NoDoc
    /\ idx = 1
    /\ results = <<>>
    /\ pre = NoDoc
    /\ pre_backups = 0
    /\ history = <<>>
    /\ ScriptsIdle

NextCalls ==
    \/ CallFixNormalizeTime
    \/ CallFixToSeconds
    \/ CallEnhNormalizeTime
    \/ CallEnhTimeToSeconds
    \/ CallSeverityFromFlags
    \/ CallAuditMainLesson
    \/ CallAuditLesson
    \/ CallIsWeakLabel
    \/ CallIsWeakDescription
    \/ CallCheckLabelQuality
    \/ CallCheckDescriptionQuality
    \/ CallAuditHeuristics
    \/ CallGenerateSmartLabel
    \/ CallGenerateSmartDescription
    \/ CallRewriteLabel
    \/ CallRewriteDescription

SpecCalls == InitCalls /\ [][NextCalls]_vars

\* ------------------------------------------------------------------------
\* fix_timestamps.main with a lesson selection and a minimum separation
\* ------------------------------------------------------------------------

\* length of the timestamp lists of the two-lesson documents
MaxArgTs == 2

\* documents of two lessons, "lesson-1" and "lesson-2"
ArgDocs ==
    {Doc(<<TsLesson(HMS(0, 1, 0), a),
           Lesson("lesson-2", "week-1", MS(1, 30), b, "/videos/cohort_3/b.mp4", Absent)>>)
        : a \in ListsUpTo({E0, E5, E20}, MaxArgTs), b \in ListsUpTo({E0, E5, E20}, MaxArgTs)}
    \cup {Corrupt}

\* --selection: none, one lesson, both, and an id no lesson has
SelectionInputs == {{}, {"lesson-1"}, {"lesson-2"}, {"lesson-1", "lesson-2"}, {"lesson-9"}}

\* --min_sep_s: below, at and above the default
MinSepInputs == {4, MIN_SEP_S, 16}

FixArgs == [selection : SelectionInputs, min_sep_s : MinSepInputs]

InitArgs ==
    /\ doc \in ArgDocs
    /\ proposals = NoProposals
    /\ InitRun

\* one invocation of fix_timestamps.main
NextArgs ==
    \/ \E dry \in BOOLEAN, a \in FixArgs : history = <<>> /\ Start("fix", dry, a)
    \/ Load
    \/ LoadFails
    \/ Backup
    \/ ProcessFix
    \/ EndLoop
    \/ Write
    \/ WriteFails
    \/ Report
    \/ Finish

SpecArgs == InitArgs /\ [][NextArgs]_vars

\* ------------------------------------------------------------------------
\* batch_runner_with_monitoring.RobustBatchRunner
\* ------------------------------------------------------------------------

\* process_video: max_retries = 3
max_retries == 3

\* run: a video whose failure count is at least 3 is skipped
FailureLimit == 3

\* process_video: wait_time = 30 * (retry_count + 1)
wait_time(retry_count) == 30 * (retry_count + 1)

\* process_video: recoverable_errors
recoverable_errors == <<"timed out", "connection", "temporary", "500", "502", "503", "504">>

\* any(err in error_msg.lower() for err in recoverable_errors)
is_recoverable(error_msg) ==
    \E n \in 1..Len(recoverable_errors) : Contains(recoverable_errors[n], Lower(error_msg))

\* what str(e) can be when transcribe_from_url or the check after it raises
ErrorMessages ==
    {"Connection timed out", "Invalid data found when processing input",
     "Transcript files were not created"}

\* a checkpoint file json.dump has written completely
Checkpoint(completed, failed) ==
    [exists |-> TRUE, ok |-> TRUE, completed |-> completed, failed |-> failed]

\* the checkpoint file after open(path, 'w') and before json.dump has
\* written it: json.load raises on it
Truncated == [exists |-> TRUE, ok |-> FALSE, completed |-> {}, failed |-> NoFailures]

\* load_checkpoint: completed and failed of the file, or the empty values of
\* __init__ when there is no file or json.load raises
load_checkpoint(file) ==
    IF file.exists /\ file.ok
    THEN [completed |-> file.completed, failed |-> file.failed]
    ELSE [completed |-> {}, failed |-> NoFailures]

\* what the completely written checkpoints have listed, with this one
Recording(file) ==
    [completed |-> recorded.completed \cup file.completed,
     exhausted |-> recorded.exhausted
                     \cup {v \in VideoIds : file.failed[v] >= FailureLimit}]

\* check_existing_transcript
check_existing_transcript(video_id) == video_id \in transcripts

\* the video of the current loop iteration
video_id == Videos[runner.i]

\* __init__ up to signal.signal(SIGINT, self.signal_handler): a new process
\* with empty state and the handler installed
StartRunner ==
    /\ runner.pc = "off"
    /\ runner' = [RunnerOff EXCEPT !.pc = "init", !.sigint = "handler"]
    /\ UNCHANGED <<tool_vars, checkpoint, transcripts, recorded, workflow>>

\* __init__: load_checkpoint(); then run() up to the loop
LoadCheckpoint ==
    /\ runner.pc = "init"
    /\ runner' = [runner EXCEPT !.pc = "loop",
                                !.completed = load_checkpoint(checkpoint).completed,
                                !.failed = load_checkpoint(checkpoint).failed,
                                !.loaded = load_checkpoint(checkpoint)]
    /\ UNCHANGED <<tool_vars, checkpoint, transcripts, recorded, workflow>>

\* run: the for loop is exhausted, or stop_requested breaks it
LeaveLoop ==
    /\ runner.pc = "loop"
    /\ runner.i > Len(Videos) \/ runner.stop_requested
    /\ runner' = [runner EXCEPT !.pc = "final"]
    /\ UNCHANGED <<tool_vars, checkpoint, transcripts, recorded, workflow>>

\* run without "if self.stop_requested: break"
NextVideoIgnoringStop ==
    /\ runner.pc = "loop"
    /\ runner.i <= Len(Videos)
    /\ runner' = [runner EXCEPT !.pc = "video"]
    /\ UNCHANGED <<tool_vars, checkpoint, transcripts, recorded, workflow>>

\* run: the for loop yields the next video and "if self.stop_requested" is
\* false: the loop body of the video begins
NextVideo ==
    /\ runner.pc = "loop"
    /\ runner.i <= Len(Videos)
    /\ ~runner.stop_requested
    /\ runner' = [runner EXCEPT !.pc = "video"]
    /\ UNCHANGED <<tool_vars, checkpoint, transcripts, recorded, workflow>>

\* run: "Skipping (already done)" and "Skipping (max retries exceeded)"
SkipVideo ==
    /\ runner.pc = "video"
    /\ \/ video_id \in runner.completed
       \/ runner.failed[video_id] >= FailureLimit
    /\ runner' = [runner EXCEPT !.pc = "loop", !.i = @ + 1]
    /\ UNCHANGED <<tool_vars, checkpoint, transcripts, recorded, workflow>>

\* run: success = self.process_video(video), the call
CallProcessVideo ==
    /\ runner.pc = "video"
    /\ video_id \notin runner.completed
    /\ runner.failed[video_id] < FailureLimit
    /\ runner' = [runner EXCEPT !.pc = "check", !.retry_count = 0, !.attempts = 0,
                                !.waits = <<>>, !.error = ""]
    /\ UNCHANGED <<tool_vars, checkpoint, transcripts, recorded, workflow>>

\* process_video returns a value to run
ReturnTo(success) ==
    [runner EXCEPT !.pc = "returned", !.success = success,
                   !.outcome[video_id] = IF success THEN "true" ELSE "false"]

\* process_video: if self.check_existing_transcript(video): return True
CheckExisting ==
    /\ runner.pc = "check"
    /\ runner' = IF check_existing_transcript(video_id)
                 THEN ReturnTo(TRUE)
                 ELSE [runner EXCEPT !.pc = "transcribe"]
    /\ UNCHANGED <<tool_vars, checkpoint, transcripts, recorded, workflow>>

\* process_video: transcribe_from_url creates the transcript files
TranscribeSucceeds ==
    /\ runner.pc = "transcribe"
    /\ transcripts' = transcripts \cup {video_id}
    /\ runner' = [ReturnTo(TRUE) EXCEPT !.attempts = @ + 1]
    /\ UNCHANGED <<tool_vars, checkpoint, recorded, workflow>>

\* process_video with "retry_count <= max_retries" for the retry condition
TranscribeRaisesOnceMore ==
    /\ runner.pc = "transcribe"
    /\ \E error_msg \in ErrorMessages :
         runner' = IF is_recoverable(error_msg) /\ runner.retry_count <= max_retries
                   THEN [runner EXCEPT !.pc = "sleep", !.attempts = @ + 1,
                                       !.error = error_msg,
                                       !.waits = Append(@, wait_time(runner.retry_count))]
                   ELSE [ReturnTo(FALSE) EXCEPT !.attempts = @ + 1, !.error = error_msg]
    /\ UNCHANGED <<tool_vars, checkpoint, transcripts, recorded, workflow>>

\* process_video: an exception in the try block; the except clause retries
\* after a wait or saves the error log and returns False
TranscribeRaises ==
    /\ runner.pc = "transcribe"
    /\ \E error_msg \in ErrorMessages :
         runner' = IF is_recoverable(error_msg) /\ runner.retry_count < max_retries
                   THEN [runner EXCEPT !.pc = "sleep", !.attempts = @ + 1,
                                       !.error = error_msg,
                                       !.waits = Append(@, wait_time(runner.retry_count))]
                   ELSE [ReturnTo(FALSE) EXCEPT !.attempts = @ + 1, !.error = error_msg]
    /\ UNCHANGED <<tool_vars, checkpoint, transcripts, recorded, workflow>>

\* process_video: time.sleep(wait_time) is over;
\* return self.process_video(video, retry_count + 1)
Retry ==
    /\ runner.pc = "sleep"
    /\ runner' = [runner EXCEPT !.pc = "check", !.retry_count = @ + 1]
    /\ UNCHANGED <<tool_vars, checkpoint, transcripts, recorded, workflow>>

\* run: if success: self.completed.add(video_id)
AddCompleted ==
    /\ runner.pc = "returned"
    /\ runner.success
    /\ runner' = [runner EXCEPT !.pc = "added", !.completed = @ \cup {video_id}]
    /\ UNCHANGED <<tool_vars, checkpoint, transcripts, recorded, workflow>>

\* run: if video_id in self.failed: del self.failed[video_id]
RemoveFailed ==
    /\ runner.pc = "added"
    /\ runner' = [runner EXCEPT !.pc = "save", !.failed[video_id] = 0]
    /\ UNCHANGED <<tool_vars, checkpoint, transcripts, recorded, workflow>>

\* run: else: self.failed[video_id] (0 if not a key) += 1
CountFailure ==
    /\ runner.pc = "returned"
    /\ ~runner.success
    /\ runner' = [runner EXCEPT !.pc = "save", !.failed[video_id] = @ + 1]
    /\ UNCHANGED <<tool_vars, checkpoint, transcripts, recorded, workflow>>

\* save_checkpoint: open(self.checkpoint_path, 'w') truncates the file
OpenCheckpoint ==
    /\ runner.pc \in {"save", "final"}
    /\ checkpoint' = Truncated
    /\ runner' = [runner EXCEPT !.pc = IF @ = "save" THEN "dump" ELSE "final_dump"]
    /\ UNCHANGED <<tool_vars, transcripts, recorded, workflow>>

\* save_checkpoint: json.dump has written the file and it is closed; after
\* "Save checkpoint after each video" the loop goes on
DumpCheckpoint ==
    /\ runner.pc = "dump"
    /\ checkpoint' = Checkpoint(runner.completed, runner.failed)
    /\ recorded' = Recording(checkpoint')
    /\ runner' = [runner EXCEPT !.pc = "loop", !.i = @ + 1]
    /\ UNCHANGED <<tool_vars, transcripts, workflow>>

\* run: "Final checkpoint save" is written; run returns and the process ends
FinalCheckpoint ==
    /\ runner.pc = "final_dump"
    /\ checkpoint' = Checkpoint(runner.completed, runner.failed)
    /\ recorded' = Recording(checkpoint')
    /\ runner' = RunnerEnded("returned")
    /\ UNCHANGED <<tool_vars, transcripts, workflow>>

\* the positions of run inside the loop body of a video: from the stop check
\* it has passed to the checkpoint save that ends it
InProgress ==
    {"video", "check", "transcribe", "sleep", "returned", "added", "save", "dump"}

\* signal_handler, on the first SIGINT, between any two steps of the main
\* thread: sets stop_requested, saves the checkpoint, restores SIG_DFL
signal_handler ==
    /\ runner.pc # "off"
    /\ runner.sigint = "handler"
    /\ checkpoint' = Checkpoint(runner.completed, runner.failed)
    /\ recorded' = Recording(checkpoint')
    /\ runner' = [runner EXCEPT !.stop_requested = TRUE, !.sigint = "default",
                                !.interrupted = IF runner.pc \in InProgress
                                                THEN video_id ELSE "none"]
    /\ UNCHANGED <<tool_vars, transcripts, workflow>>

\* the process is killed (SIGKILL, a second SIGINT, power loss): the object
\* is gone, the files stay as they are
Kill ==
    /\ runner.pc # "off"
    /\ runner' = RunnerEnded("killed")
    /\ UNCHANGED <<tool_vars, checkpoint, transcripts, recorded, workflow>>

\* the batch runner, started again and again, from no checkpoint and with or
\* without the transcript of the first video already on disk
InitBatch ==
    /\ doc = NoDoc
    /\ proposals = NoProposals
    /\ backups = <<>>
    /\ tool = "none"
    /\ dry_run = FALSE
    /\ args = NoArgs
    /\ pc = 0
    /\ course_data = NoDoc
    /\ idx = 1
    /\ results = <<>>
    /\ pre = NoDoc
    /\ pre_backups = 0
    /\ history = <<>>
    /\ runner = RunnerOff
    /\ checkpoint = NoCheckpoint
    /\ transcripts \in {{}, {Videos[1]}}
    /\ recorded = NothingRecorded
    /\ workflow = WorkflowOff

RunnerStep ==
    \/ LoadCheckpoint
    \/ LeaveLoop
    \/ NextVideo
    \/ SkipVideo
    \/ CallProcessVideo
    \/ CheckExisting
    \/ TranscribeSucceeds
    \/ TranscribeRaises
    \/ Retry
    \/ AddCompleted
    \/ RemoveFailed
    \/ CountFailure
    \/ OpenCheckpoint
    \/ DumpCheckpoint
    \/ FinalCheckpoint

NextBatch ==
    \/ StartRunner
    \/ LoadCheckpoint
    \/ LeaveLoop
    \/ NextVideo
    \/ SkipVideo
    \/ CallProcessVideo
    \/ CheckExisting
    \/ TranscribeSucceeds
    \/ TranscribeRaises
    \/ Retry
    \/ AddCompleted
    \/ RemoveFailed
    \/ CountFailure
    \/ OpenCheckpoint
    \/ DumpCheckpoint
    \/ FinalCheckpoint
    \/ signal_handler
    \/ Kill

SpecBatch == InitBatch /\ [][NextBatch]_vars

\* the main thread of a running process always takes its next step
SpecBatchFair == SpecBatch /\ WF_vars(RunnerStep)

\* ------------------------------------------------------------------------
\* workflow_orchestrator.py: WorkflowOrchestrator.run_full_workflow
\* ------------------------------------------------------------------------

\* run_full_workflow: phases, in the order of the list
phases ==
    <<"Authentication & Discovery", "Video Download", "Batch Transcription",
      "Content Extraction">>

\* the largest number of downloads, transcriptions or analyses of a phase
MaxItems == 2

\* "return success_rate > 0.5" with success_rate = successful / total, or 0
\* when total is 0
rate_above_half(successful, total) == total > 0 /\ 2 * successful > total

\* what a phase leaves in self.results and returns
PhaseResult(success, successful, total) ==
    [success |-> success, successful |-> successful, total |-> total]

\* a phase function has returned success to the loop of run_full_workflow
PhaseReturns(result) ==
    [workflow EXCEPT !.pc = "returned", !.success = result.success,
                     !.returned = Append(@, result)]

\* main: WorkflowOrchestrator(args.config); run_full_workflow is called
StartWorkflow ==
    /\ workflow.pc = "off"
    /\ workflow.result = "none"
    /\ workflow' = [workflow EXCEPT !.pc = "initialize"]
    /\ UNCHANGED <<tool_vars, batch_vars>>

\* run_full_workflow: self.initialize_components() returns; the phases list
\* is built and the loop begins
initialize_components ==
    /\ workflow.pc = "initialize"
    /\ workflow' = [workflow EXCEPT !.pc = "loop", !.phase = 1]
    /\ UNCHANGED <<tool_vars, batch_vars>>

\* run_full_workflow: a constructor in initialize_components raises; the
\* exception leaves run_full_workflow
InitializeRaises ==
    /\ workflow.pc = "initialize"
    /\ workflow' = [workflow EXCEPT !.pc = "off", !.result = "raised"]
    /\ UNCHANGED <<tool_vars, batch_vars>>

\* run_full_workflow: the loop takes the next phase: "Starting: ...",
\* success = phase_func() is called
StartPhase ==
    /\ workflow.pc = "loop"
    /\ workflow.phase <= Len(phases)
    /\ workflow' = [workflow EXCEPT !.pc = "phase",
                                    !.started = Append(@, phases[workflow.phase])]
    /\ UNCHANGED <<tool_vars, batch_vars>>

\* phase_1_authentication_discovery: False when anything raises (also
\* "Authentication failed") or no video is discovered, else True
phase_1_authentication_discovery ==
    /\ workflow.pc = "phase"
    /\ workflow.phase = 1
    /\ \E raised \in BOOLEAN, video_urls \in 0..MaxItems :
         workflow' = PhaseReturns(PhaseResult(~raised /\ video_urls > 0,
                                              IF raised THEN 0 ELSE video_urls,
                                              IF raised THEN 0 ELSE video_urls))
    /\ UNCHANGED <<tool_vars, batch_vars>>

\* phase_2_video_download: False when anything raises, else
\* success_rate > 0.5 of the downloads
phase_2_video_download ==
    /\ workflow.pc = "phase"
    /\ workflow.phase = 2
    /\ \E raised \in BOOLEAN, total_downloads \in 0..MaxItems :
       \E successful_downloads \in 0..total_downloads :
         workflow' = PhaseReturns(
             IF raised THEN PhaseResult(FALSE, 0, 0)
             ELSE PhaseResult(rate_above_half(successful_downloads, total_downloads),
                              successful_downloads, total_downloads))
    /\ UNCHANGED <<tool_vars, batch_vars>>

\* phase_3_transcription: False when anything raises, else
\* overall_stats.success_rate > 0.5
phase_3_transcription ==
    /\ workflow.pc = "phase"
    /\ workflow.phase = 3
    /\ \E raised \in BOOLEAN, total \in 0..MaxItems :
       \E total_successful \in 0..total :
         workflow' = PhaseReturns(
             IF raised THEN PhaseResult(FALSE, 0, 0)
             ELSE PhaseResult(rate_above_half(total_successful, total),
                              total_successful, total))
    /\ UNCHANGED <<tool_vars, batch_vars>>

\* phase_4_content_extraction: True at once when content analysis is
\* disabled in the config; else False when anything raises, else
\* success_rate > 0.5 of the analyses
phase_4_content_extraction ==
    /\ workflow.pc = "phase"
    /\ workflow.phase = 4
    /\ \E raised \in BOOLEAN, transcript_files \in 0..MaxItems :
       \E successful_analyses \in 0..transcript_files :
         workflow' = PhaseReturns(
             IF ~workflow.enable_content_analysis THEN PhaseResult(TRUE, 0, 0)
             ELSE IF raised THEN PhaseResult(FALSE, 0, 0)
             ELSE PhaseResult(rate_above_half(successful_analyses, transcript_files),
                              successful_analyses, transcript_files))
    /\ UNCHANGED <<tool_vars, batch_vars>>

\* run_full_workflow: if success: "completed successfully"; the loop goes on
PhaseSucceeded ==
    /\ workflow.pc = "returned"
    /\ workflow.success
    /\ workflow' = [workflow EXCEPT !.pc = "loop", !.phase = @ + 1]
    /\ UNCHANGED <<tool_vars, batch_vars>>

\* run_full_workflow without the "return False" of the else branch
PhaseFailedGoesOn ==
    /\ workflow.pc = "returned"
    /\ ~workflow.success
    /\ workflow' = [workflow EXCEPT !.pc = "loop", !.phase = @ + 1]
    /\ UNCHANGED <<tool_vars, batch_vars>>

\* run_full_workflow: else: "failed - stopping workflow"; return False
PhaseFailed ==
    /\ workflow.pc = "returned"
    /\ ~workflow.success
    /\ workflow' = [workflow EXCEPT !.pc = "off", !.result = "false"]
    /\ UNCHANGED <<tool_vars, batch_vars>>

\* run_full_workflow: after the loop, self.results['workflow_success'] = True
Finalize ==
    /\ workflow.pc = "loop"
    /\ workflow.phase > Len(phases)
    /\ workflow' = [workflow EXCEPT !.pc = "report", !.workflow_success = TRUE]
    /\ UNCHANGED <<tool_vars, batch_vars>>

\* _save_workflow_report writes the report; run_full_workflow returns True
save_workflow_report ==
    /\ workflow.pc = "report"
    /\ workflow' = [workflow EXCEPT !.pc = "off", !.report_written = TRUE,
                                    !.result = "true"]
    /\ UNCHANGED <<tool_vars, batch_vars>>

\* _save_workflow_report: open or json.dump raises; the exception leaves
\* run_full_workflow
SaveReportRaises ==
    /\ workflow.pc = "report"
    /\ workflow' = [workflow EXCEPT !.pc = "off", !.result = "raised"]
    /\ UNCHANGED <<tool_vars, batch_vars>>

\* one run of the workflow, with content analysis enabled or disabled in
\* the config
InitWorkflow ==
    /\ doc = NoDoc
    /\ proposals = NoProposals
    /\ backups = <<>>
    /\ tool = "none"
    /\ dry_run = FALSE
    /\ args = NoArgs
    /\ pc = 0
    /\ course_data = NoDoc
    /\ idx = 1
    /\ results = <<>>
    /\ pre = NoDoc
    /\ pre_backups = 0
    /\ history = <<>>
    /\ runner = RunnerOff
    /\ checkpoint = NoCheckpoint
    /\ transcripts = {}
    /\ recorded = NothingRecorded
    /\ \E enabled \in BOOLEAN :
         workflow = [WorkflowOff EXCEPT !.enable_content_analysis = enabled]

NextWorkflow ==
    \/ StartWorkflow
    \/ initialize_components
    \/ InitializeRaises
    \/ StartPhase
    \/ phase_1_authentication_discovery
    \/ phase_2_video_download
    \/ phase_3_transcription
    \/ phase_4_content_extraction
    \/ PhaseSucceeded
    \/ PhaseFailed
    \/ Finalize
    \/ save_workflow_report
    \/ SaveReportRaises

SpecWorkflow == InitWorkflow /\ [][NextWorkflow]_vars

\* ------------------------------------------------------------------------
\* Properties
\* ------------------------------------------------------------------------

\* seconds value of a time string read as H:MM:SS or MM:SS, None if it has
\* no such reading
SecondsValue(t) == IF t.k \in {"hms", "ms"} THEN MatchSeconds(t) ELSE None

Unparseable(t) == SecondsValue(t) = None

\* the finished runs
Runs == {history[n] : n \in 1..Len(history)}

\* the finished runs of a fixer that went through with dry-run off
RepairRuns == {h \in Runs : h.tool \in FixerTools /\ ~h.dry_run /\ h.status = "done"}

LessonsOf(h) == 1..Len(h.before.lessons)

MinSeparationOf(t) == IF t = "enh" THEN MIN_SEPARATION_S ELSE MIN_SEP_S

\* any two entries with a seconds value are at least min_sep apart
WellSeparated(timestamps, min_sep) ==
    \A a, b \in 1..Len(timestamps) :
        (a < b /\ ~Unparseable(timestamps[a].time) /\ ~Unparseable(timestamps[b].time))
        => \/ SecondsValue(timestamps[a].time) - SecondsValue(timestamps[b].time) >= min_sep
           \/ SecondsValue(timestamps[b].time) - SecondsValue(timestamps[a].time) >= min_sep

\* C1: after a repair with dry-run off, any two entries of a lesson's
\* resulting timestamp list are at least the fixer's minimum separation apart
\* (15 s for fix_timestamps_enhanced, 8 s for fix_timestamps).
C1_MinSeparationAfterRepair ==
    \A h \in RepairRuns : \A l \in LessonsOf(h) :
        WellSeparated(h.after.lessons[l].timestamps, MinSeparationOf(h.tool))

\* the entries with a seconds value appear in non-decreasing order
NonDecreasing(timestamps) ==
    \A a, b \in 1..Len(timestamps) :
        (a < b /\ ~Unparseable(timestamps[a].time) /\ ~Unparseable(timestamps[b].time))
        => SecondsValue(timestamps[a].time) <= SecondsValue(timestamps[b].time)

\* C2: after a fixer run with dry-run off, every lesson's timestamp list in
\* the written document is non-decreasing in seconds value.
C2_WrittenListNonDecreasing ==
    \A h \in RepairRuns : \A l \in LessonsOf(h) :
        NonDecreasing(h.after.lessons[l].timestamps)

\* the result's change log says that the entry with this time was merged away
LoggedAsMerged(r, time) ==
    \E n \in 1..Len(r.changes_summary) :
        r.changes_summary[n].kind = "merged" /\ r.changes_summary[n].time2 = time

\* C3: after fix_timestamps_enhanced repairs a lesson with parseable duration
\* D (dry-run off), no entry later than D remains in the written list, and no
\* input entry at or before D (t = D included) is removed by the range step:
\* it is kept, or merged into a neighbour.
C3_RangeKeepsExactlyUpToDuration ==
    \A h \in RepairRuns : \A l \in LessonsOf(h) :
        (h.tool = "enh" /\ ~Unparseable(h.before.lessons[l].duration)) =>
            /\ \A k \in 1..Len(h.after.lessons[l].timestamps) :
                 ~Unparseable(h.after.lessons[l].timestamps[k].time)
                 => SecondsValue(h.after.lessons[l].timestamps[k].time)
                      <= SecondsValue(h.before.lessons[l].duration)
            /\ \A k \in 1..Len(h.before.lessons[l].timestamps) :
                 (/\ ~Unparseable(h.before.lessons[l].timestamps[k].time)
                  /\ SecondsValue(h.before.lessons[l].timestamps[k].time)
                       <= SecondsValue(h.before.lessons[l].duration))
                 => \/ k \in Range(h.results[l].origin)
                    \/ LoggedAsMerged(h.results[l],
                                      EnhNormalizeTime(h.before.lessons[l].timestamps[k].time))

\* the results of a run record no change
NoChangeRecorded(t, rs) ==
    \A n \in 1..Len(rs) :
        IF t = "enh" THEN rs[n].changes_summary = <<>>
        ELSE /\ ~rs[n].duration_changed
             /\ rs[n].normalized_times = <<>>
             /\ rs[n].removed_dense_pairs = <<>>
             /\ rs[n].rewritten = <<>>

\* C4: a fixer run with dry-run off that follows a run of the same fixer
\* with dry-run off writes the document it found and records no change.
C4_SecondRunChangesNothing ==
    \A n \in 1..(Len(history) - 1) :
        (/\ history[n] \in RepairRuns
         /\ history[n + 1] \in RepairRuns
         /\ history[n + 1].tool = history[n].tool)
        => /\ history[n + 1].before = history[n].after
           /\ history[n + 1].after = history[n].after
           /\ NoChangeRecorded(history[n + 1].tool, history[n + 1].results)

\* a lesson that presents one label / description pair to the tools: one
\* timestamp, at a canonical time inside a clean duration
OnePair(lesson) ==
    /\ Len(lesson.timestamps) = 1
    /\ MatchesCleanRe(lesson.duration)
    /\ lesson.timestamps[1].time.k = "hms"
    /\ MatchesCleanRe(lesson.timestamps[1].time)
    /\ lesson.timestamps[1].time.mp
    /\ SecondsValue(lesson.timestamps[1].time) < SecondsValue(lesson.duration)

\* the fixer's result records that it rewrote the label / the description
FixerRewroteLabel(t, r, time) ==
    IF t = "enh"
    THEN \E n \in 1..Len(r.changes_summary) :
            r.changes_summary[n].kind = "label" /\ r.changes_summary[n].time = time
    ELSE \E n \in 1..Len(r.rewritten) :
            r.rewritten[n].time = time /\ r.rewritten[n].new_label # NoChange

FixerRewroteDescription(t, r, time) ==
    IF t = "enh"
    THEN \E n \in 1..Len(r.changes_summary) :
            r.changes_summary[n].kind = "description" /\ r.changes_summary[n].time = time
    ELSE \E n \in 1..Len(r.rewritten) :
            r.rewritten[n].time = time /\ r.rewritten[n].new_desc # NoChange

\* C5: an audit and a fixer that ran on the same document agree on every
\* label / description pair: the audit lists the label (the description) as
\* weak if and only if the fixer rewrites it.
C5_AuditAndFixerAgree ==
    \A a \in Runs, f \in Runs :
        (/\ a.tool \in AuditTools
         /\ f.tool \in FixerTools
         /\ a.status = "done"
         /\ f.status = "done"
         /\ a.before = f.before)
        => \A l \in LessonsOf(a) :
             OnePair(a.before.lessons[l]) =>
               /\ a.before.lessons[l].timestamps[1].time \in Range(a.results[l].vague_labels)
                  <=> FixerRewroteLabel(f.tool, f.results[l],
                                        a.before.lessons[l].timestamps[1].time)
               /\ a.before.lessons[l].timestamps[1].time \in Range(a.results[l].weak_descriptions)
                  <=> FixerRewroteDescription(f.tool, f.results[l],
                                              a.before.lessons[l].timestamps[1].time)

\* the tools of claim C6
BackupTools == {"fix", "enh", "migrate", "video"}

\* a backup file written in the interval holds the content
BackedUp(content, first, last) ==
    \E n \in first..last : n <= Len(backups) /\ backups[n] = content

\* C6: in a run with dry-run off of fix_timestamps, fix_timestamps_enhanced,
\* migrate_course_json or fix_video_paths, a backup of the pre-run document
\* has been written by the run before it first writes the course document;
\* after a failed write that backup is there.
C6_BackupBeforeWrite ==
    /\ (tool \in BackupTools /\ ~dry_run /\ (Step = "write" \/ doc # pre))
       => BackedUp(pre, pre_backups + 1, Len(backups))
    /\ \A h \in Runs :
         (h.tool \in BackupTools /\ ~h.dry_run /\ h.after # h.before)
         => BackedUp(h.before, h.backups_before + 1, h.backups_after)

\* a write of migrate_course_json failed and left the document truncated,
\* and the backup taken by that run holds the pre-run document
C6_FailedWriteWithBackup ==
    /\ Len(history) = 1
    /\ history[1].tool = "migrate"
    /\ history[1].status = "write_failed"
    /\ doc = Corrupt
    /\ history[1].before # Corrupt
    /\ backups = <<history[1].before>>

\* C7: a dry run never writes the course document and creates no backup
\* file, and the lesson fix_timestamps.process_lesson is given with
\* dry_run=True is the same record when it returns.
C7_DryRunChangesNothing ==
    [][dry_run => /\ doc' = doc
                  /\ backups' = backups
                  /\ (tool = "fix" /\ Step = "process") => course_data' = course_data]_vars

\* a dry run of fix_timestamps has finished: it reported times to normalize,
\* dense pairs and rewrites, and document and backups are as before
C7_DryRunReportedChanges ==
    /\ Len(history) = 1
    /\ history[1].tool = "fix"
    /\ history[1].dry_run
    /\ history[1].status = "done"
    /\ history[1].results[1].normalized_times # <<>>
    /\ history[1].results[1].removed_dense_pairs # <<>>
    /\ history[1].results[1].rewritten # <<>>
    /\ doc = history[1].before
    /\ backups = <<>>

\* the change log of fix_timestamps_enhanced names the entry's time in a
\* record that gives density merge or range exclusion as the reason
EnhDropLogged(r, time) ==
    \E n \in 1..Len(r.changes_summary) :
        /\ r.changes_summary[n].kind \in {"merged", "range"}
        /\ time \in {r.changes_summary[n].time, r.changes_summary[n].time2}

\* the result of fix_timestamps names the entry's time in a removed dense pair
FixDropLogged(r, time) ==
    \E n \in 1..Len(r.removed_dense_pairs) :
        time \in {r.removed_dense_pairs[n].prev, r.removed_dense_pairs[n].curr}

\* C8: every entry of a lesson's input list that is absent from the list the
\* repair produces has a record in the repair's change log that names the
\* entry and gives the reason (density merge or range exclusion).
C8_EveryDropIsLogged ==
    \A h \in Runs : \A l \in LessonsOf(h) :
        /\ (h.tool = "enh" /\ l <= Len(h.results)) =>
             \A k \in 1..Len(h.before.lessons[l].timestamps) :
                k \notin Range(h.results[l].origin)
                => EnhDropLogged(h.results[l],
                                 EnhNormalizeTime(h.before.lessons[l].timestamps[k].time))
        /\ (h.tool = "fix" /\ ~h.dry_run /\ h.status = "done") =>
             \A k \in 1..Len(h.before.lessons[l].timestamps) :
                FixNormalizeTime(h.before.lessons[l].timestamps[k].time)[1]
                   \notin Range(TimesOf(h.after.lessons[l].timestamps))
                => FixDropLogged(h.results[l],
                                 FixNormalizeTime(h.before.lessons[l].timestamps[k].time)[1])

\* the repair's output keeps input entry k with its time string
KeptUnchanged(h, l, k) ==
    IF h.tool = "enh"
    THEN \E j \in 1..Len(h.results[l].origin) :
            /\ h.results[l].origin[j] = k
            /\ h.results[l].updated_timestamps[j].time = h.before.lessons[l].timestamps[k].time
    ELSE \E j \in 1..Len(h.after.lessons[l].timestamps) :
            h.after.lessons[l].timestamps[j].time = h.before.lessons[l].timestamps[k].time

\* the repair's output flags something for attention: a note of
\* fix_timestamps, a manual-review record of fix_timestamps_enhanced
FlaggedInOutput(h, l) ==
    IF h.tool = "enh"
    THEN \E n \in 1..Len(h.results[l].changes_summary) :
            h.results[l].changes_summary[n].kind = "manual_review"
    ELSE h.results[l].notes # <<>>

\* the entry with this time took part in a density merge
InMerge(r, time) ==
    \E n \in 1..Len(r.changes_summary) :
        /\ r.changes_summary[n].kind = "merged"
        /\ time \in {r.changes_summary[n].time, r.changes_summary[n].time2}

\* C9: a timestamp whose time string cannot be parsed is kept with its time
\* string unchanged, is flagged in the repair's output, and takes no part in
\* density merging under a guessed seconds value; the repair does not fail on it.
C9_UnparseableKeptAndFlagged ==
    \A h \in Runs : \A l \in LessonsOf(h) :
        \A k \in 1..Len(h.before.lessons[l].timestamps) :
            (h.tool \in FixerTools /\ Unparseable(h.before.lessons[l].timestamps[k].time)) =>
                /\ h.status # "crashed"
                /\ l <= Len(h.results) =>
                     /\ KeptUnchanged(h, l, k)
                     /\ FlaggedInOutput(h, l)
                     /\ h.tool = "enh" =>
                          ~InMerge(h.results[l], h.before.lessons[l].timestamps[k].time)

\* C10: an audit gives a lesson the verdict "pass" only if its format,
\* range, order, density and coverage lists are empty and no label or
\* description is listed as weak.
C10_PassOnlyIfEveryCheckPasses ==
    tool \in AuditTools =>
        \A n \in 1..Len(results) :
            results[n].overall = "pass" =>
                /\ results[n].format = <<>>
                /\ results[n].out_of_range = <<>>
                /\ results[n].non_monotonic = <<>>
                /\ results[n].density = <<>>
                /\ results[n].coverage_gaps = <<>>
                /\ results[n].vague_labels = <<>>
                /\ results[n].weak_descriptions = <<>>

\* the call whose return value the state holds
Called(call) == results # <<>> /\ results[1].call = call

\* a string of three numeric parts with minutes and seconds below 60
ValidHMS(t) == t.k = "hms" /\ ~t.ann /\ t.m <= 59 /\ t.s <= 59

\* a valid string as f"{h}:{m:02d}:{s:02d}" writes it
CanonicalHMS(t) == ValidHMS(t) /\ t.mp

\* C11: for a valid H:MM:SS string, normalize_time keeps the seconds value
\* (seconds(normalize(s)) = seconds(s) = 3600 h + 60 m + s) and returns a
\* canonical string unchanged, with the change flag false in fix_timestamps;
\* in fix_timestamps and in fix_timestamps_enhanced.
C11_NormalizeKeepsSeconds ==
    (results # <<>> /\ args.kind = "time" /\ ValidHMS(args.time_str)) =>
        /\ Called("fix_timestamps.normalize_time") =>
             /\ FixToSeconds(results[1].returned[1]) = FixToSeconds(args.time_str)
             /\ FixToSeconds(args.time_str)
                  = args.time_str.h * 3600 + args.time_str.m * 60 + args.time_str.s
             /\ CanonicalHMS(args.time_str) => results[1].returned = <<args.time_str, FALSE>>
        /\ Called("fix_timestamps_enhanced.normalize_time") =>
             /\ results[1].raised = ""
             /\ EnhTimeToSeconds(results[1].returned) = EnhTimeToSeconds(args.time_str)
             /\ EnhTimeToSeconds(args.time_str)
                  = args.time_str.h * 3600 + args.time_str.m * 60 + args.time_str.s
             /\ CanonicalHMS(args.time_str) => results[1].returned = args.time_str

\* fix_timestamps.normalize_time returned the canonical string 1:59:59
\* unchanged with the flag false
C11_CanonicalReturnedUnchanged ==
    /\ Called("fix_timestamps.normalize_time")
    /\ args.kind = "time"
    /\ args.time_str = HMS(1, 59, 59)
    /\ results[1].returned = <<HMS(1, 59, 59), FALSE>>

\* the runs of fix_timestamps_enhanced and the lessons they have a result for
EnhResults == {<<h, l>> \in Runs \X {1} : h.tool = "enh" /\ l <= Len(h.results)}

\* positions in updated_timestamps of the entries that come from the input
\* list, i.e. the list as it was after merging
KeptAt(r) == SelectSeq([n \in 1..Len(r.origin) |-> n], LAMBDA n : r.origin[n] # 0)

\* C12: for every pair of entries adjacent after merging whose gap exceeds
\* duration_seconds * MAX_GAP_PERCENT, fix_lesson_timestamps inserts one
\* entry at prev + floor(gap / 2) labelled TO_REVIEW; an entry labelled
\* TO_REVIEW keeps that label through the rewrite step, in the run that
\* inserts it and in a later run; and the change summary has the manual
\* review marker whenever the resulting list has a TO_REVIEW entry.
C12_GapGetsReviewEntry ==
    \A hl \in EnhResults :
        LET r == hl[1].results[hl[2]]
            input == hl[1].before.lessons[hl[2]]
            sec(n) == EnhTimeToSeconds(r.updated_timestamps[n].time)
            kept == KeptAt(r)
        IN /\ \A i \in 1..(Len(kept) - 1) :
                EnhGapTooLong(sec(kept[i + 1]) - sec(kept[i]), EnhTimeToSeconds(input.duration))
                => /\ kept[i + 1] = kept[i] + 2
                   /\ r.origin[kept[i] + 1] = 0
                   /\ r.updated_timestamps[kept[i] + 1].label = TO_REVIEW
                   /\ r.updated_timestamps[kept[i] + 1].time
                        = SecondsToTime(sec(kept[i])
                                        + ((sec(kept[i + 1]) - sec(kept[i])) \div 2))
           /\ \A n \in 1..Len(r.origin) :
                /\ r.origin[n] = 0 => r.updated_timestamps[n].label = TO_REVIEW
                /\ (r.origin[n] # 0 /\ input.timestamps[r.origin[n]].label = TO_REVIEW)
                   => r.updated_timestamps[n].label = TO_REVIEW
           /\ (\E n \in 1..Len(r.origin) : r.updated_timestamps[n].label = TO_REVIEW)
              => \E n \in 1..Len(r.changes_summary) :
                    r.changes_summary[n].kind = "manual_review"

\* a second run of fix_timestamps_enhanced finds a TO_REVIEW entry at 0:00:20
\* between 0:00:00 and 0:00:40, keeps it under that label, and fills the two
\* gaps at 0:00:10 and 0:00:30
C12_ReviewEntryKeptByLaterRun ==
    /\ Len(history) = 2
    /\ history[1].tool = "enh"
    /\ history[2].tool = "enh"
    /\ ~history[1].dry_run
    /\ history[2].status = "done"
    /\ Len(history[2].before.lessons[1].timestamps) = 3
    /\ history[2].before.lessons[1].timestamps[2].label = TO_REVIEW
    /\ history[2].results[1].origin = <<1, 0, 2, 0, 3>>
    /\ history[2].results[1].updated_timestamps[3].label = TO_REVIEW
    /\ history[2].results[1].updated_timestamps[2].time = HMS(0, 0, 10)
    /\ history[2].results[1].updated_timestamps[4].time = HMS(0, 0, 30)

\* the severity that goes with the six kinds of violation
SeverityIs(severity, range, order, coverage, density, labelweak, descweak) ==
    /\ severity = "Critical" <=> (range \/ order)
    /\ severity = "High" <=> (~(range \/ order) /\ (coverage \/ density))
    /\ severity = "Medium" <=> (~(range \/ order) /\ ~(coverage \/ density)
                                 /\ (labelweak \/ descweak))
    /\ severity = "Low" <=> ~(range \/ order \/ coverage \/ density \/ labelweak \/ descweak)

\* C13: the audit's severity is "Critical" with any range or order violation,
\* else "High" with any coverage or density violation, else "Medium" with any
\* weak label or description, else "Low": for every combination of the six
\* flags of severity_from_flags, and for the entry audit_timestamps.main
\* builds, where the flags are the non-emptiness of the issue lists.
C13_SeverityFollowsViolations ==
    /\ Called("audit_timestamps.severity_from_flags") =>
         SeverityIs(results[1].returned, args.flags[1], args.flags[2], args.flags[3],
                    args.flags[4], args.flags[5], args.flags[6])
    /\ Called("audit_timestamps.main") =>
         SeverityIs(results[1].returned.severity,
                    results[1].returned.out_of_range # <<>>,
                    results[1].returned.non_monotonic # <<>>,
                    results[1].returned.coverage_gaps # <<>>,
                    results[1].returned.density # <<>>,
                    results[1].returned.vague_labels # <<>>,
                    results[1].returned.weak_descriptions # <<>>)

\* audit_timestamps.main gave "High" to a lesson with a coverage gap, weak
\* summaries and neither range nor order violation
C13_HighForCoverageGap ==
    /\ Called("audit_timestamps.main")
    /\ results[1].returned.severity = "High"
    /\ results[1].returned.coverage_gaps # <<>>
    /\ results[1].returned.density = <<>>
    /\ results[1].returned.out_of_range = <<>>
    /\ results[1].returned.non_monotonic = <<>>

\* the runs of fix_timestamps.main that returned
FixRuns == {h \in Runs : h.tool = "fix" /\ h.status = "done"}

\* the ids of the entries of results["lessons"]
ResultIds(h) == {h.results[n].lesson_id : n \in 1..Len(h.results)}

\* C14: when fix_timestamps.main is called with a non-empty selection, a
\* lesson whose id is not selected is in the written document as it was in
\* the input and has no entry in results["lessons"], whose length is
\* lessons_considered; every lesson whose id is selected is processed.
C14_SelectionRestrictsScope ==
    \A h \in FixRuns :
        h.args.selection # {} =>
            /\ \A l \in LessonsOf(h) :
                 IF h.before.lessons[l].id \in h.args.selection
                 THEN h.before.lessons[l].id \in ResultIds(h)
                 ELSE /\ h.after.lessons[l] = h.before.lessons[l]
                      /\ h.before.lessons[l].id \notin ResultIds(h)
            /\ Len(h.results)
                 = Cardinality({l \in LessonsOf(h) : h.before.lessons[l].id \in h.args.selection})

\* fix_timestamps.main, dry-run off, selection "lesson-2": lesson-1 has the
\* weak label "Overview" and is written back untouched, lesson-2 is rewritten
C14_OnlySelectedLessonRewritten ==
    /\ Len(history) = 1
    /\ history[1] \in FixRuns
    /\ ~history[1].dry_run
    /\ history[1].args.selection = {"lesson-2"}
    /\ history[1].before.lessons[1].timestamps = <<E0>>
    /\ doc.lessons[1] = history[1].before.lessons[1]
    /\ doc.lessons[2] # history[1].before.lessons[2]
    /\ ResultIds(history[1]) = {"lesson-2"}

\* the lesson of the run's input document that has this id
InputLesson(h, id) == CHOOSE lesson \in Range(h.before.lessons) : lesson.id = id

\* two entries of the list are closer than min_sep
HasClosePair(timestamps, min_sep) == ~WellSeparated(timestamps, min_sep)

\* C15: fix_timestamps.main applies the minimum separation it is given as
\* min_sep_s and reports as config.min_sep_s: the density step records a
\* removal for a lesson exactly when two of its entries are closer than
\* that value.
C15_GivenSeparationIsApplied ==
    \A h \in FixRuns : \A n \in 1..Len(h.results) :
        h.results[n].removed_dense_pairs # <<>>
        <=> HasClosePair(InputLesson(h, h.results[n].lesson_id).timestamps, h.args.min_sep_s)

\* the positions of the entries the audit did not report as format failures
ParsedAt(timestamps, format) ==
    {n \in 1..Len(timestamps) : timestamps[n].time \notin Range(format)}

\* the time strings, in list order, of the parsed entries that are earlier
\* than some parsed entry before them in the list
OutOfOrderTimes(timestamps, format) ==
    LET at == SelectSeq(Indices(Len(timestamps)),
                        LAMBDA n : /\ n \in ParsedAt(timestamps, format)
                                   /\ \E m \in ParsedAt(timestamps, format) :
                                         /\ m < n
                                         /\ SecondsValue(timestamps[m].time)
                                              > SecondsValue(timestamps[n].time))
    IN [i \in 1..Len(at) |-> timestamps[at[i]].time]

\* the audit has returned its entry for a lesson
AuditReturned ==
    Called("audit_timestamps.main") \/ Called("audit_timestamps_enhanced.audit_lesson")

\* C16: the order check of both audits walks the list as it is and flags
\* exactly the entries whose seconds value is below the largest seconds
\* value of the parseable entries before them, each under its own time
\* string.
C16_OrderCheckUsesRunningMaximum ==
    AuditReturned =>
        results[1].returned.non_monotonic
          = OutOfOrderTimes(args.lesson.timestamps, results[1].returned.format)

\* the time strings, in list order, of the parsed entries that lie after
\* the end of the lesson
BeyondDurationTimes(timestamps, format, duration) ==
    LET at == SelectSeq(Indices(Len(timestamps)),
                        LAMBDA n : /\ n \in ParsedAt(timestamps, format)
                                   /\ SecondsValue(timestamps[n].time)
                                        > SecondsValue(duration))
    IN [i \in 1..Len(at) |-> timestamps[at[i]].time]

\* C17: for a lesson with a valid duration, the range check of both audits
\* lists exactly the parsed entries whose seconds value lies outside
\* 0..duration, each under its own time string, also when entries with a
\* bad time format come before them in the list.
C17_RangeListsOwnTimeString ==
    (AuditReturned /\ results[1].returned.duration_ok) =>
        results[1].returned.out_of_range
          = BeyondDurationTimes(args.lesson.timestamps,
                                results[1].returned.format,
                                args.lesson.duration)

\* one gap record, in list order, for every two parsed entries next to each
\* other (bad-format entries skipped) that are more than max_gap apart
GapRecords(timestamps, format, max_gap) ==
    LET parsed == SelectSeq(timestamps, LAMBDA t : t.time \notin Range(format))
        at == SelectSeq(Indices(Len(parsed)),
                        LAMBDA n : /\ n > 1
                                   /\ SecondsValue(parsed[n].time)
                                        - SecondsValue(parsed[n - 1].time) > max_gap)
    IN [i \in 1..Len(at) |->
            [start |-> parsed[at[i] - 1].time,
             end |-> parsed[at[i]].time,
             length_s |-> SecondsValue(parsed[at[i]].time)
                            - SecondsValue(parsed[at[i] - 1].time)]]

\* C18: the coverage check of both audits records exactly one gap record
\* for every two consecutive parseable timestamps that are more than the
\* maximum gap apart, with the two entries' time strings and their
\* difference, whether or not the lesson's duration is valid.
C18_CoverageRecordsEveryGap ==
    AuditReturned =>
        results[1].returned.coverage_gaps
          = GapRecords(args.lesson.timestamps, results[1].returned.format, MAX_GAP_S)

\* C19: both audits list every time string that is not in strict H:MM:SS
\* form (a two-part M:SS string, an annotated time, free text) as a format
\* failure, and a format failure appears in neither the range list nor the
\* order list.
C19_OnlyStrictFormAccepted ==
    AuditReturned =>
        \A n \in 1..Len(args.lesson.timestamps) :
            LET time == args.lesson.timestamps[n].time
            IN ~ValidHMS(time) =>
                  /\ time \in Range(results[1].returned.format)
                  /\ time \notin Range(results[1].returned.out_of_range)
                  /\ time \notin Range(results[1].returned.non_monotonic)

\* a label of two to five words that are not all generic terms
LabelAccepted(label) ==
    /\ word_count(label) \in LABEL_WORDS_MIN..LABEL_WORDS_MAX
    /\ ~(Range(extract_words(label)) \subseteq GENERIC_LABELS)

\* a description of five to fifteen words of whose distinct words at most
\* seven in ten occur in the label
DescriptionAccepted(desc, label) ==
    /\ word_count(desc) \in DESC_WORDS_MIN..DESC_WORDS_MAX
    /\ 10 * Cardinality(Range(extract_words(desc)) \cap Range(extract_words(label)))
         <= 7 * Cardinality(Range(extract_words(desc)))

\* C20: in fix_timestamps, audit_timestamps_enhanced and audit_timestamps
\* alike, a label is accepted exactly when it has two to five words that
\* are not all generic terms, and a description exactly when it has five
\* to fifteen words and the fraction of its distinct words that occur in
\* the label is at most 0.7.
C20_OneQualityHeuristic ==
    (results # <<>> /\ args.kind = "text") =>
        LET label_ok == LabelAccepted(args.label)
            desc_ok == DescriptionAccepted(args.description, args.label)
            returned == results[1].returned
        IN /\ Called("fix_timestamps.is_weak_label") => (returned <=> ~label_ok)
           /\ Called("fix_timestamps.is_weak_description") => (returned <=> ~desc_ok)
           /\ Called("audit_timestamps_enhanced.check_label_quality")
                => (returned <=> label_ok)
           /\ Called("audit_timestamps_enhanced.check_description_quality")
                => (returned <=> desc_ok)
           /\ Called("audit_timestamps.main heuristics")
                => /\ returned.vague_label <=> ~label_ok
                   /\ returned.weak_description <=> ~desc_ok

\* a lesson of two entries with valid times at different seconds values
\* below the lesson's valid duration that are closer than min_sep
TwoCloseEntries(lesson, min_sep) ==
    /\ Len(lesson.timestamps) = 2
    /\ ValidHMS(lesson.duration)
    /\ \A n \in 1..2 : /\ ValidHMS(lesson.timestamps[n].time)
                       /\ SecondsValue(lesson.timestamps[n].time) < SecondsValue(lesson.duration)
    /\ SecondsValue(lesson.timestamps[1].time) # SecondsValue(lesson.timestamps[2].time)
    /\ ~WellSeparated(lesson.timestamps, min_sep)

\* the position of the earlier of the two entries
EarlierOf(timestamps) ==
    IF SecondsValue(timestamps[1].time) < SecondsValue(timestamps[2].time) THEN 1 ELSE 2

\* the position of the entry the density step is to keep: the one with the
\* longer description and, on equal length, the earlier one
KeeperOf(timestamps) ==
    LET e == EarlierOf(timestamps)
    IN IF Len(timestamps[3 - e].description) > Len(timestamps[e].description) THEN 3 - e ELSE e

\* the number of merge records of a repair's result
MergeRecords(h, l) ==
    IF h.tool = "enh"
    THEN Cardinality({n \in 1..Len(h.results[l].changes_summary) :
                         h.results[l].changes_summary[n].kind = "merged"})
    ELSE Len(h.results[l].removed_dense_pairs)

\* C21: when two entries are closer than the minimum separation, both
\* fixers keep the one whose description is longer (the earlier one on
\* equal length), append the discarded entry's description to the kept
\* entry's description, and log one merge record.
C21_DenseKeepsLongerAndMerges ==
    \A h \in RepairRuns : \A l \in LessonsOf(h) :
        TwoCloseEntries(h.before.lessons[l], MinSeparationOf(h.tool)) =>
            LET before == h.before.lessons[l].timestamps
                after == h.after.lessons[l].timestamps
                keep == before[KeeperOf(before)]
                drop == before[3 - KeeperOf(before)]
            IN /\ Len(after) = 1
               /\ after[1].time = keep.time
               /\ Contains(drop.description, after[1].description)
               /\ MergeRecords(h, l) = 1

\* the calls that return a replacement label / a replacement description
LabelWriters ==
    {"fix_timestamps_enhanced.generate_smart_label", "fix_timestamps.rewrite_label"}

DescriptionWriters ==
    {"fix_timestamps_enhanced.generate_smart_description",
     "fix_timestamps.rewrite_description"}

\* C22: every replacement label the fixers generate has 2 to 5 words and
\* every replacement description has 5 to 15 words, for every title,
\* content, keyword set and timestamp position.
C22_ReplacementsWithinWordBounds ==
    results # <<>> =>
        /\ results[1].call \in LabelWriters
             => word_count(results[1].returned) \in LABEL_WORDS_MIN..LABEL_WORDS_MAX
        /\ results[1].call \in DescriptionWriters
             => word_count(results[1].returned) \in DESC_WORDS_MIN..DESC_WORDS_MAX

\* the string normalize_time returned: the first component of the pair in
\* fix_timestamps, the value itself in fix_timestamps_enhanced
NormalizedString ==
    IF Called("fix_timestamps.normalize_time")
    THEN results[1].returned[1] ELSE results[1].returned

\* a string of two or three numeric parts without annotation
NumericParts(t) == t.k \in {"hms", "ms"} /\ ~t.ann

\* C23: for every two-part or three-part numeric input, normalize_time of
\* both fixers returns a string with minutes and seconds below 60 and the
\* same total of seconds as the input: seconds of 60 or more are carried
\* into minutes, minutes of 60 or more into hours.
C23_NormalizeCarriesOverflow ==
    (/\ Called("fix_timestamps.normalize_time")
          \/ Called("fix_timestamps_enhanced.normalize_time")
     /\ NumericParts(args.time_str)) =>
        /\ results[1].raised = ""
        /\ NormalizedString.m <= 59
        /\ NormalizedString.s <= 59
        /\ SecondsValue(NormalizedString) = SecondsValue(args.time_str)

\* the three lists of changes of a lesson's report
ReportedChanges(r) ==
    [normalized_times |-> r.normalized_times,
     removed_dense_pairs |-> r.removed_dense_pairs,
     rewritten |-> r.rewritten]

\* C24: for the same lesson, the report fix_timestamps.process_lesson
\* returns with dry-run on has the same normalized_times,
\* removed_dense_pairs and rewritten lists as the report it returns with
\* dry-run off.
C24_DryRunReportEqualsRealReport ==
    \A d \in FixRuns, w \in FixRuns :
        (d.dry_run /\ ~w.dry_run /\ d.before = w.before) =>
            \A l \in 1..Len(d.results) :
                ReportedChanges(d.results[l]) = ReportedChanges(w.results[l])

\* the process is inside a call of process_video
InProcessVideo == runner.pc \in {"check", "transcribe", "sleep"}

\* no video is in process_video while its id is in the completed set
NoCallForCompleted == InProcessVideo => video_id \notin runner.completed

\* while a process lives, no id leaves its completed set
CompletedOnlyGrows ==
    (runner.pc # "off" /\ runner'.pc # "off") => runner.completed \subseteq runner'.completed

\* between two videos no id is in the completed set and a key of the failed
\* map, and no checkpoint file lists an id in both
CompletedAndFailedDisjoint ==
    /\ runner.pc = "loop" => \A v \in runner.completed : runner.failed[v] = 0
    /\ \A v \in checkpoint.completed : checkpoint.failed[v] = 0

\* C25: run never calls process_video for a video whose id is in the
\* completed set (ids loaded from the checkpoint included), no id is ever
\* removed from completed, and, starting from no checkpoint, no id is ever
\* in both completed and failed.
C25_CompletedNeverReprocessed ==
    /\ []NoCallForCompleted
    /\ [][CompletedOnlyGrows]_vars
    /\ []CompletedAndFailedDisjoint

\* the positions at which run has counted the outcome of the video in
\* progress: from the checkpoint save that follows it on
OutcomeCounted == {"save", "dump"}

\* the failure count of every video is the count the process loaded plus
\* one if process_video has returned False for it in this run
CountRisesByOne ==
    \A n \in 1..Len(Videos) :
        (/\ runner.pc # "off"
         /\ runner.outcome[Videos[n]] = "false"
         /\ n < runner.i \/ (n = runner.i /\ runner.pc \in OutcomeCounted))
        => runner.failed[Videos[n]] = runner.loaded.failed[Videos[n]] + 1

\* no failure count, in memory or in the checkpoint, is above the limit
CountWithinLimit ==
    \A v \in VideoIds : runner.failed[v] <= 3 /\ checkpoint.failed[v] <= 3

\* a video whose count has reached the limit in a written checkpoint is
\* never again in process_video
ExhaustedNeverCalled == InProcessVideo => video_id \notin recorded.exhausted

\* C26: across runs resumed from the checkpoint, a video's failure count
\* rises by exactly 1 in each run in which process_video returns False for
\* it, never exceeds 3, and a video whose count has reached 3 is skipped by
\* every later run without a call of process_video.
C26_FailureCountBounded ==
    /\ CountRisesByOne
    /\ CountWithinLimit
    /\ ExhaustedNeverCalled

\* process_video has returned to run and the outcome is not yet counted
Returned == runner.pc = "returned"

\* at most the first attempt and max_retries retries
AtMostFourAttempts == runner.attempts <= max_retries + 1

\* a retry is pending only after a recoverable error and before the 4th
\* attempt, and the k-th wait is 30 * k seconds
RetryOnlyWhenRecoverable ==
    runner.pc = "sleep" =>
        /\ is_recoverable(runner.error)
        /\ runner.attempts <= max_retries
        /\ Len(runner.waits) = runner.retry_count + 1
        /\ \A k \in 1..Len(runner.waits) : runner.waits[k] = 30 * k

\* False is returned after an error that is not recoverable, or after the
\* 4th failed attempt, and every attempt but the last was waited for
FalseWithoutFurtherAttempt ==
    (Returned /\ ~runner.success) =>
        /\ runner.error # ""
        /\ ~is_recoverable(runner.error) \/ runner.attempts = max_retries + 1
        /\ Len(runner.waits) = runner.attempts - 1

\* the first check of a call that finds the transcript returns True, and no
\* attempt has been made
TrueWhenTranscriptExists ==
    (/\ runner.pc = "check"
     /\ runner.retry_count = 0
     /\ check_existing_transcript(video_id)
     /\ runner'.pc \notin {"check", "off"})
    => (runner'.pc = "returned" /\ runner'.success /\ runner'.attempts = 0)

StartsVideo == runner.pc = "loop" /\ runner'.pc = "video"

\* after the handler has set stop_requested no loop body begins, and the only
\* call of process_video is for the video that was in progress
NoFurtherVideo ==
    runner.stop_requested =>
        /\ ~StartsVideo
        /\ (runner.pc = "video" /\ runner'.pc = "check") => video_id = runner.interrupted

\* what process_video returned for a video is in the checkpoint file
RecordsOutcome(file, v) ==
    /\ runner.outcome[v] = "true" => v \in file.completed
    /\ runner.outcome[v] = "false" => file.failed[v] = runner.loaded.failed[v] + 1
    /\ runner.outcome[v] = "none" =>
           v \in runner.loaded.completed \/ runner.loaded.failed[v] >= FailureLimit

\* when run returns after an interruption, the checkpoint it has written last
\* records the outcome of the video that was in progress, and no later video
\* has an outcome
StopRecordsOutcome ==
    (/\ runner.pc = "final_dump"
     /\ runner'.pc = "off"
     /\ runner'.ended = "returned"
     /\ runner.interrupted # "none")
    => /\ RecordsOutcome(checkpoint', runner.interrupted)
       /\ \A n \in 1..Len(Videos) :
            (\E k \in 1..(n - 1) : Videos[k] = runner.interrupted)
            => runner.outcome[Videos[n]] = "none"

BetweenVideos == runner.pc = "loop"

\* the checkpoint file holds the completed set and the failed map of memory
CheckpointEqualsMemory ==
    BetweenVideos =>
        \/ load_checkpoint(checkpoint)
             = [completed |-> runner.completed, failed |-> runner.failed]
        \/ runner.i = 1 /\ ~checkpoint.exists

\* what a resumed run would load differs from memory at most on the video in
\* progress
LosesAtMostVideoInProgress ==
    (runner.pc \in InProgress \cup {"loop", "final", "final_dump"}) =>
        \A v \in VideoIds :
            (\/ v \in runner.completed /\ v \notin load_checkpoint(checkpoint).completed
             \/ runner.failed[v] # load_checkpoint(checkpoint).failed[v])
            => (runner.pc \in InProgress /\ v = video_id)

\* no video a checkpoint has recorded as completed is transcribed again
NoRecordedVideoRepeated ==
    runner.pc = "transcribe" => video_id \notin recorded.completed

\* C29: whenever run is between two videos, the completed list and the failed
\* map of the checkpoint file equal the completed set and the failed map in
\* memory; a run killed at any point and resumed from the checkpoint loses at
\* most the outcome of the video in progress and repeats no video recorded as
\* completed.
C29_CheckpointMatchesMemory ==
    /\ CheckpointEqualsMemory
    /\ LosesAtMostVideoInProgress
    /\ NoRecordedVideoRepeated

\* the phases started so far are the first ones of the list, in its order
PhasesInFixedOrder ==
    /\ Len(workflow.started) <= Len(phases)
    /\ \A n \in 1..Len(workflow.started) : workflow.started[n] = phases[n]

\* every phase before a started one has returned, and returned success
StartsOnlyAfterSuccess ==
    /\ Len(workflow.returned) <= Len(workflow.started)
    /\ \A n \in 1..Len(workflow.started) :
         \A k \in 1..(n - 1) :
            k <= Len(workflow.returned) /\ workflow.returned[k].success

\* once a phase has returned failure no phase is started
NothingAfterFailure ==
    (\E n \in 1..Len(workflow.returned) : ~workflow.returned[n].success)
    => workflow'.started = workflow.started

\* workflow_success is set and the report written only after all four phases
\* have returned success
SuccessOnlyAfterAllPhases ==
    (workflow.workflow_success \/ workflow.report_written \/ workflow.result = "true")
    => /\ Len(workflow.returned) = 4
       /\ \A n \in 1..4 : workflow.returned[n].success

\* C30: run_full_workflow runs its phases in the fixed order
\* authentication/discovery, video download, transcription, content
\* extraction; a phase starts only if every earlier phase returned success,
\* no phase runs after the first one that returns failure, and
\* workflow_success is set and the report written only when all four phases
\* returned success.
C30_PhasesInOrderUntilFailure ==
    /\ []PhasesInFixedOrder
    /\ []StartsOnlyAfterSuccess
    /\ [][NothingAfterFailure]_vars
    /\ []SuccessOnlyAfterAllPhases

\* all four phases have run, the content analysis among them, and the
\* report is written
C30_ReportAfterFourPhases ==
    /\ workflow.report_written
    /\ workflow.workflow_success
    /\ workflow.started = phases
    /\ workflow.enable_content_analysis
    /\ workflow.returned[4].total > 0

====
